---- MODULE Spec2Model ----
(***************************************************************************)
(* Verification model of the splat time toggle viewer.                     *)
(*                                                                         *)
(* Part 1: TimeToggleSystem (time-toggle-system.js): loading of the time   *)
(* states, the switch protocol and its lock.                               *)
(*                                                                         *)
(* Part 2: CollisionSystem: loading of the collision mesh, the physics     *)
(* probe and the mesh arbiter checkCollision of the movement loop.  It has *)
(* its own specification, MeshSpec; Spec is the time toggle.               *)
(*                                                                         *)
(* Part 3: the movement loop of the viewer: the candidate position of a    *)
(* frame, the arbiters consulted on it and the commit.  Its specification  *)
(* is NavSpec.                                                             *)
(*                                                                         *)
(* Part 4: the segment test of the boundary arbiter, a pure function,      *)
(* applied to segments over a bounded grid.  Its specification is SegSpec. *)
(*                                                                         *)
(* Part 5: the wall boundary: the collection of wall segments under the    *)
(* calls of its interface (WallSpec), and the camera walking among walls   *)
(* loaded from the wall configuration, with the boundary's verdict         *)
(* computed from the stored segments (WalkSpec).                           *)
(*                                                                         *)
(* Part 6: the placement of a time state's entity from its alignment       *)
(* matrix, a pure function (PlaceSpec).                                    *)
(*                                                                         *)
(* LiveSpec is Spec with the fairness of the asset loader, the frames and  *)
(* the timers, for the properties that something happens in the end.       *)
(*                                                                         *)
(* Granularity: JavaScript runs every event handler to completion, and     *)
(* the continuations of a settled promise (microtasks) run before the next *)
(* event is dispatched.  One action of the model is therefore one handler  *)
(* (a call from the page, an asset callback, an interval tick, an          *)
(* animation frame, a timeout) together with the continuations it resumes. *)
(***************************************************************************)
EXTENDS Integers, Naturals, Sequences, FiniteSets, TLC

\* ----------------------------------------------------------------- bounds
\* number of time states declared in config.timeToggle.times
NumTimes == 2
\* concurrent switchToTime calls the model keeps a record for
MaxSwitches == 2
\* concurrent direct loadTimeState calls the model keeps a record for
MaxLoadCalls == 2
\* load requests of one time state the asset loader holds at once
MaxInFlight == 2
\* saturation of the per-time-state entity creation counter
MaxCreated == 2
\* milliseconds by which one Tick advances the clock
Quantum == 150

\* positions tried by the movement loop: 0..MaxCell cells of Cell centimetres
MaxCell == 3

Cell == 15

\* how far from its start the model lets the camera go, and above maxY, in decimetres
MaxReach == 60
\* frames of the movement loop the model follows
MaxFrames == 2

\* segment end points tried: coordinates 0..MaxCoord grid points
MaxCoord == 2
\* grid points per metre (a power of two: the coordinates are exact doubles)
Grid == 256
\* wall segments the collection holds at most
MaxWalls == 4
\* grid points the camera moves along each axis in one frame, at most
MaxStep == 1
\* grid points the model lets the camera go from its start along each axis
MaxWalk == 1
\* alignment matrices tried: translations 0..MaxShift along each axis,
\* scales 1..MaxScale
MaxShift == 2
MaxScale == 2

\* ------------------------------------------------------ program constants
\* this.switchCooldown
switchCooldown == 300
\* config.timeToggle.defaultTime ('primary', the first declared time state)
DefaultTime == 1
\* an id that config.timeToggle.times does not declare
UnknownTime == 0

\* this.times, as the ids in declared order
times == [i \in 1..NumTimes |-> i]

Ids == {times[i] : i \in 1..NumTimes}

VARIABLES
    activeTimeId,    \* this.activeTimeId
    loadingStates,   \* this.loadingStates: id -> "unloaded" (absent) | "loading" | "loaded" | "error"
    splatEntities,   \* this.splatEntities with entity.enabled: id -> "none" | "shown" | "hidden"
    switchLock,      \* this.switchLock
    inFlight,        \* asset loader: id -> number of load requests not yet signalled
    created,         \* id -> number of pc.Entity objects created for it (saturating)
    initState,       \* initialize(): "new" | "loading" | "done" | "failed"
    sw,              \* switchToTime calls: slot -> record (pc, target, captured entities, timer, effects)
    ld,              \* direct loadTimeState calls that wait: id -> (own, poll) counts
    notified,        \* arguments and view of the last onTimeChange callback
    lastOp           \* the handler that ran last, its argument and its outcome

progvars == <<activeTimeId, loadingStates, splatEntities, switchLock, inFlight,
              created, initState, sw, ld, notified>>

vars == <<activeTimeId, loadingStates, splatEntities, switchLock, inFlight,
          created, initState, sw, ld, notified, lastOp>>

\* CollisionSystem and the physics engine it probes
VARIABLES
    collisionMesh,     \* this.collisionMesh: "null" | "model"
    collisionEnabled,  \* this.collisionEnabled
    physicsReady,      \* this.physicsReady
    debugVisible,      \* this.debugVisible
    meshAsset,         \* the collision asset: "new" | "loading" | "ready" | "error"
    probes,            \* pending setTimeout callbacks of _testPhysicsReady
    physics,           \* app.systems.rigidbody: "none" | "noWorld" | "world" (dynamicsWorld set)
    meshOp             \* the CollisionSystem handler that ran last, its arguments and its result

meshVars == <<collisionMesh, collisionEnabled, physicsReady, debugVisible,
              meshAsset, probes, physics, meshOp>>

\* checkCollision call record; cur, new and hit are positions, ray the raycast's outcome
MeshOp(o, c, n, r, h, b) ==
    [op |-> o, cur |-> c, new |-> n, ray |-> r, hit |-> h, res |-> b]

\* CollisionSystem constructor
MeshInit ==
    /\ collisionMesh = "null"
    /\ collisionEnabled = FALSE
    /\ physicsReady = FALSE
    /\ debugVisible = FALSE
    /\ meshAsset = "new"
    /\ probes = 0
    /\ physics = "none"
    /\ meshOp = MeshOp("constructor", 0, 0, "none", 0, FALSE)

\* the movement loop of the application (app.on('update')) and its switches
VARIABLES
    camPos,                \* camera.getPosition(): [x, y, z] in decimetres
    flyMode,               \* flyMode (O key)
    wallCollisionEnabled,  \* wallCollisionEnabled (B key)
    portalSystem,          \* portalSystem: FALSE while it is null
    portalPos,             \* the position portalSystem.checkCollision was last given
    frames,                \* frames run so far
    navOp                  \* the last frame: candidate, arbiters asked, verdict, portal update

navVars == <<camPos, flyMode, wallCollisionEnabled, portalSystem, portalPos,
             frames, navOp>>

\* lineSegmentsIntersect and the last query made of it
VARIABLES
    segOp                  \* [op, a, b, res, rev]: segments a, b, the result and that of (b, a)

segVars == <<segOp>>

\* the wall boundary (wall-system.js) and the camera walking among the walls
VARIABLES
    WALL_SEGMENTS,         \* the stored segments, in insertion order
    wallConfig,            \* loadWalls: "pending", "loaded" or "failed"
    walkPos,               \* (x, z) of the camera, in grid points
    unnamedOnly,           \* the collection is the default one changed only by
                           \* addWallSegment without a name and removeWallSegment
    wallOp                 \* the last call of the boundary, its arguments and result

wallVars == <<WALL_SEGMENTS, wallConfig, walkPos, unnamedOnly, wallOp>>

\* the placement of a time state's entity, and the last one computed
VARIABLES
    placeOp                \* [op, transform, pos, rot, scale]

placeVars == <<placeOp>>

\* what the handlers of one component leave alone
notTimeVars == <<meshVars, navVars, segVars, wallVars, placeVars>>
notMeshVars == <<vars, navVars, segVars, wallVars, placeVars>>
notNavVars == <<vars, meshVars, segVars, wallVars, placeVars>>
notSegVars == <<vars, meshVars, navVars, wallVars, placeVars>>
notWallVars == <<vars, meshVars, navVars, segVars, placeVars>>
notPlaceVars == <<vars, meshVars, navVars, segVars, wallVars>>

\* a position
Vec(a, b, c) == [x |-> a, y |-> b, z |-> c]

\* config.startPosition (0, 1.6, 5)
startPosition == Vec(0, 16, 50)

\* the record of a frame
NavOp(o, c, a, b, f, u, sm) ==
    [op |-> o, cand |-> c, asked |-> a, blocked |-> b, fly |-> f,
     updated |-> u, smooth |-> sm]

\* the record of a handler that is not a frame
NavDid(o) == NavOp(o, startPosition, <<>>, "none", FALSE, FALSE, "kept")

\* the application after initializeApp has set up the camera
NavInit ==
    /\ camPos = startPosition
    /\ flyMode = FALSE
    /\ wallCollisionEnabled = TRUE
    /\ portalSystem = FALSE
    /\ portalPos = startPosition
    /\ frames = 0
    /\ navOp = NavDid("start")

\* a segment from (x1, y1) to (x2, y2)
Seg(a, b, c, d) == [x1 |-> a, y1 |-> b, x2 |-> c, y2 |-> d]

\* no query made yet
SegInit == segOp = [op |-> "none", a |-> Seg(0, 0, 0, 0), b |-> Seg(0, 0, 0, 0),
                    res |-> FALSE, rev |-> FALSE]

\* a point of the ground plane
Pt(a, b) == [x |-> a, z |-> b]

\* a stored wall segment
Wall(n, s, e, c) == [name |-> n, start |-> s, end |-> e, color |-> c]

\* a coordinate given in millimetres, on the grid
OnGrid(mm) == (mm * Grid) \div 1000

\* the color of the default segments and the default of addWallSegment
defaultColor == 65280

\* the three segments WALL_SEGMENTS is declared with
defaultWalls ==
    << Wall("wall_0", Pt(OnGrid(-577), OnGrid(154295)),
                      Pt(OnGrid(-2196), OnGrid(165528)), defaultColor),
       Wall("wall_1", Pt(OnGrid(-1190), OnGrid(165157)),
                      Pt(OnGrid(-12323), OnGrid(163401)), defaultColor),
       Wall("wall_2", Pt(OnGrid(-12319), OnGrid(163251)),
                      Pt(OnGrid(-11748), OnGrid(154124)), defaultColor) >>

\* (x, z) of config.startPosition (0, 1.6, 5)
walkStart == Pt(0, 5 * Grid)

\* no segment, and no collision info (null)
NoWall == Wall("", Pt(0, 0), Pt(0, 0), 0)
NoInfo == [wall |-> "", start |-> Pt(0, 0), end |-> Pt(0, 0)]

\* the record of a call: its name argument, the segment added, removed or
\* found, its result, a mark, the move tested, the collision info, and for
\* an addition the collection it was made to
WallOp(o, n, w, r, m, a, b, i) ==
    [op |-> o, name |-> n, wall |-> w, res |-> r, mark |-> m,
     from |-> a, to |-> b, info |-> i, before |-> <<>>]

WallDid(o) == WallOp(o, "", NoWall, FALSE, FALSE, walkStart, walkStart, NoInfo)

\* the module as loaded, before loadWalls has an answer
WallInit ==
    /\ WALL_SEGMENTS = defaultWalls
    /\ wallConfig = "pending"
    /\ walkPos = walkStart
    /\ unnamedOnly = TRUE
    /\ wallOp = WallDid("none")

\* no entity placed yet
PlaceInit ==
    placeOp = [op |-> "none", transform |-> <<>>, pos |-> <<0, 0, 0>>,
               rot |-> <<>>, scale |-> <<1, 1, 1>>]

Min(a, b) == IF a < b THEN a ELSE b
Max(a, b) == IF a > b THEN a ELSE b

Op(o, i, r) == [op |-> o, id |-> i, res |-> r]

IdleSwitch == [pc |-> "idle", to |-> 0, from |-> 0, left |-> 0, since |-> 0, trace |-> <<>>,
               early |-> FALSE]
IdleLoad == [own |-> 0, poll |-> 0]
NoNotify == [to |-> 0, from |-> 0, seen |-> 0]

SwitchSlots == 1..MaxSwitches

\* the application as initializeApp has constructed it
Init ==
    /\ activeTimeId = DefaultTime
    /\ loadingStates = [i \in Ids |-> "unloaded"]
    /\ splatEntities = [i \in Ids |-> "none"]
    /\ switchLock = FALSE
    /\ inFlight = [i \in Ids |-> 0]
    /\ created = [i \in Ids |-> 0]
    /\ initState = "new"
    /\ sw = [k \in SwitchSlots |-> IdleSwitch]
    /\ ld = [i \in Ids |-> IdleLoad]
    /\ notified = NoNotify
    /\ lastOp = Op("constructor", 0, "ok")
    /\ MeshInit
    /\ NavInit
    /\ SegInit
    /\ WallInit
    /\ PlaceInit

\* ---------------------------------------------------------- loadTimeState
\* loadTimeState without the test for a load in flight
loadBranch_noLoading(ls, timeId) ==
    IF timeId \notin Ids THEN "null"
    ELSE IF ls[timeId] = "loaded" THEN "entity"
    ELSE "own"

\* loadTimeState without the test for a loaded time state
loadBranch_noLoaded(ls, timeId) ==
    IF timeId \notin Ids THEN "null"
    ELSE IF ls[timeId] = "loading" THEN "poll"
    ELSE "own"

\* the branch loadTimeState(timeId) takes:
\*   "null"   unknown id, returns null
\*   "entity" already loaded, returns the entity
\*   "poll"   already loading, returns a promise polled every 100 ms
\*   "own"    marks the id loading and issues the load request
loadBranch(ls, timeId) ==
    IF timeId \notin Ids THEN "null"
    ELSE IF ls[timeId] = "loaded" THEN "entity"
    ELSE IF ls[timeId] = "loading" THEN "poll"
    ELSE "own"

\* loadingStates after the synchronous part of loadTimeState(timeId)
loadMark(ls, timeId) ==
    IF loadBranch(ls, timeId) = "own" THEN [ls EXCEPT ![timeId] = "loading"] ELSE ls

\* the asset loader's requests after the synchronous part of loadTimeState(timeId)
loadRequest(ls, fl, timeId) ==
    IF loadBranch(ls, timeId) = "own" THEN [fl EXCEPT ![timeId] = @ + 1] ELSE fl

\* guard that keeps the loader's request count within the model's bound
LoadFits(timeId) ==
    loadBranch(loadingStates, timeId) = "own" => inFlight[timeId] < MaxInFlight

\* every new entity left enabled, whichever time is active
enabledOnCreate_shown(timeId, active) == "shown"

\* every new entity hidden, the active one included
enabledOnCreate_hidden(timeId, active) == "hidden"

\* entity.enabled of a new entity: hidden unless it is the active time
enabledOnCreate(timeId, active) ==
    IF timeId # active THEN "hidden" ELSE "shown"

\* asset.ready callback up to resolve(entity): entity created and registered
readyEntities(ents, timeId, active) ==
    [ents EXCEPT ![timeId] = enabledOnCreate(timeId, active)]

\* error callback that forgets the failed load, as if it had never been requested
errorMark_reset(ls, timeId) == [ls EXCEPT ![timeId] = "unloaded"]

\* error callback that leaves the load state as it was
errorMark_keep(ls, timeId) == ls

\* asset error callback: the state the time is marked with
errorMark(ls, timeId) == [ls EXCEPT ![timeId] = "error"]

\* ------------------------------------------------------------ switchToTime
\* switchToTime without the switchLock test
switchEntry_noLock(timeId, active, lock) ==
    IF timeId = active THEN "same" ELSE "go"

\* switchToTime without the test for the active id
switchEntry_noSame(timeId, active, lock) ==
    IF lock THEN "locked" ELSE "go"

\* the two early returns of switchToTime
switchEntry(timeId, active, lock) ==
    IF timeId = active THEN "same"
    ELSE IF lock THEN "locked"
    ELSE "go"

\* "Ensure target is loaded": this.loadingStates[timeId] === 'loaded'
targetLoaded(ls, timeId) == timeId \in Ids /\ ls[timeId] = "loaded"

\* switchToTime whose "entities not found" exit forgets to release the lock
resumeSwitch_keepLock(r, ents, active) ==
    IF r.to \notin Ids \/ ents[active] = "none" \/ ents[r.to] = "none"
    THEN [rec |-> IdleSwitch, ents |-> ents, released |-> FALSE, res |-> "aborted"]
    ELSE [rec |-> [r EXCEPT !.pc = "raf1", !.from = active,
                            !.trace = Append(@, "show")],
          ents |-> [ents EXCEPT ![r.to] = "shown"],
          released |-> FALSE, res |-> "shown"]

\* switchToTime that enables the target before it looks for the two entities
resumeSwitch_showFirst(r, ents, active) ==
    IF r.to \notin Ids \/ ents[active] = "none" \/ ents[r.to] = "none"
    THEN [rec |-> IdleSwitch,
          ents |-> IF r.to \in Ids /\ ents[r.to] # "none"
                   THEN [ents EXCEPT ![r.to] = "shown"] ELSE ents,
          released |-> TRUE, res |-> "aborted"]
    ELSE [rec |-> [r EXCEPT !.pc = "raf1", !.from = active,
                            !.trace = Append(@, "show")],
          ents |-> [ents EXCEPT ![r.to] = "shown"],
          released |-> FALSE, res |-> "shown"]

\* switchToTime from "const fromEntity" to the first requestAnimationFrame:
\* r is the call's record, ents the entities at that moment.
\* Yields the record, the entities and whether the lock was released.
resumeSwitch(r, ents, active) ==
    IF r.to \notin Ids \/ ents[active] = "none" \/ ents[r.to] = "none"
    THEN [rec |-> IdleSwitch, ents |-> ents, released |-> TRUE, res |-> "aborted"]
    ELSE [rec |-> [r EXCEPT !.pc = "raf1", !.from = active,
                            !.trace = Append(@, "show")],
          ents |-> [ents EXCEPT ![r.to] = "shown"],
          released |-> FALSE, res |-> "shown"]

\* the lowest free slot for a new switchToTime call
FreeSwitch == CHOOSE k \in SwitchSlots :
                 /\ sw[k].pc = "idle"
                 /\ \A m \in SwitchSlots : sw[m].pc = "idle" => k <= m

\* switchToTime(timeId), called by handler o
switchToTime(o, timeId) ==
    LET entry == switchEntry(timeId, activeTimeId, switchLock) IN
    IF entry # "go"
    THEN /\ lastOp' = Op(o, timeId, entry)
         /\ UNCHANGED progvars
    ELSE /\ \E k \in SwitchSlots : sw[k].pc = "idle"
         /\ LoadFits(timeId)
         /\ LET k == FreeSwitch
                r0 == [IdleSwitch EXCEPT !.to = timeId, !.trace = <<"lock">>,
                                         !.early = splatEntities[activeTimeId] = "none"]
                br == loadBranch(loadingStates, timeId)
            IN IF ~targetLoaded(loadingStates, timeId) /\ br \in {"own", "poll"}
               THEN /\ sw' = [sw EXCEPT ![k] = [r0 EXCEPT !.pc = br]]
                    /\ switchLock' = TRUE
                    /\ loadingStates' = loadMark(loadingStates, timeId)
                    /\ inFlight' = loadRequest(loadingStates, inFlight, timeId)
                    /\ lastOp' = Op(o, timeId, br)
                    /\ UNCHANGED <<activeTimeId, splatEntities, created, initState, ld, notified>>
               ELSE LET x == resumeSwitch(r0, splatEntities, activeTimeId) IN
                    /\ sw' = [sw EXCEPT ![k] = x.rec]
                    /\ switchLock' = ~x.released
                    /\ splatEntities' = x.ents
                    /\ lastOp' = Op(o, timeId, x.res)
                    /\ UNCHANGED <<activeTimeId, loadingStates, inFlight, created, initState, ld, notified>>

\* a direct call of switchToTime
SwitchTo(timeId) ==
    /\ initState # "new"
    /\ switchToTime("switchTo", timeId)
    /\ UNCHANGED notTimeVars

\* toggle(): the first declared time state that is not the active one
otherTime(active) ==
    IF \E i \in 1..NumTimes : times[i] # active
    THEN times[CHOOSE i \in 1..NumTimes :
                 /\ times[i] # active
                 /\ \A m \in 1..NumTimes : times[m] # active => i <= m]
    ELSE UnknownTime

\* click on the toggle button (listener installed by createUI)
Toggle ==
    /\ initState # "new"
    /\ IF otherTime(activeTimeId) # UnknownTime
       THEN switchToTime("toggle", otherTime(activeTimeId))
       ELSE /\ lastOp' = Op("toggle", UnknownTime, "none")
            /\ UNCHANGED progvars
    /\ UNCHANGED notTimeVars

\* this.times.findIndex(t => t.id === this.activeTimeId), 1-based
indexOfTime(active) == CHOOSE i \in 1..NumTimes : times[i] = active

\* handleKeyboard that wraps around at both ends of the declared order
keyIndex_wrap(keyCode, currentIndex) ==
    IF keyCode = "BracketLeft"
    THEN (IF currentIndex = 1 THEN NumTimes ELSE currentIndex - 1)
    ELSE (IF currentIndex = NumTimes THEN 1 ELSE currentIndex + 1)

\* handleKeyboard: the index the key asks for
keyIndex(keyCode, currentIndex) ==
    IF keyCode = "BracketLeft" THEN Max(1, currentIndex - 1)
    ELSE Min(NumTimes, currentIndex + 1)

\* keydown of [ or ] (listener installed once initialize() has resolved)
HandleKeyboard(keyCode) ==
    /\ initState = "done"
    /\ LET currentIndex == indexOfTime(activeTimeId)
           newIndex == keyIndex(keyCode, currentIndex)
       IN IF newIndex # currentIndex
          THEN switchToTime(keyCode, times[newIndex])
          ELSE /\ lastOp' = Op(keyCode, times[currentIndex], "clamped")
               /\ UNCHANGED progvars
    /\ UNCHANGED notTimeVars

\* initialize() that also requests every other declared time state (a preload)
Initialize_preload ==
    /\ initState = "new"
    /\ initState' = "loading"
    /\ loadingStates' = [id \in Ids |-> "loading"]
    /\ inFlight' = [id \in Ids |-> 1]
    /\ lastOp' = Op("initialize", activeTimeId, "own")
    /\ UNCHANGED <<activeTimeId, splatEntities, switchLock, created, sw, ld, notified>>
    /\ UNCHANGED notTimeVars

\* initialize(): createUI, then await loadTimeState(this.activeTimeId)
Initialize ==
    /\ initState = "new"
    /\ initState' = "loading"
    /\ loadingStates' = loadMark(loadingStates, activeTimeId)
    /\ inFlight' = loadRequest(loadingStates, inFlight, activeTimeId)
    /\ lastOp' = Op("initialize", activeTimeId, loadBranch(loadingStates, activeTimeId))
    /\ UNCHANGED <<activeTimeId, splatEntities, switchLock, created, sw, ld, notified>>
    /\ UNCHANGED notTimeVars

\* the number of direct loadTimeState calls that are waiting
RECURSIVE waitingLoads(_)
waitingLoads(n) ==
    IF n = 0 THEN 0 ELSE ld[times[n]].own + ld[times[n]].poll + waitingLoads(n - 1)

\* the waiting calls after the synchronous part of a direct loadTimeState(timeId)
loadOutcome(w, br, timeId) ==
    CASE br = "own" -> [w EXCEPT ![timeId].own = @ + 1]
      [] br = "poll" -> [w EXCEPT ![timeId].poll = @ + 1]
      [] OTHER -> w

\* a direct call of loadTimeState(timeId)
LoadVariant(timeId) ==
    /\ initState # "new"
    /\ LoadFits(timeId)
    /\ LET br == loadBranch(loadingStates, timeId) IN
       /\ br \in {"own", "poll"} => waitingLoads(NumTimes) < MaxLoadCalls
       /\ ld' = loadOutcome(ld, br, timeId)
       /\ loadingStates' = loadMark(loadingStates, timeId)
       /\ inFlight' = loadRequest(loadingStates, inFlight, timeId)
       /\ lastOp' = Op("loadTimeState", timeId, br)
    /\ UNCHANGED <<activeTimeId, splatEntities, switchLock, created, initState, sw, notified>>
    /\ UNCHANGED notTimeVars

\* ------------------------------------------------- asset loader callbacks
\* asset.ready of the request initialize() issued
AssetReadyInit ==
    /\ initState = "loading"
    /\ inFlight[DefaultTime] > 0
    /\ splatEntities' = readyEntities(splatEntities, DefaultTime, activeTimeId)
    /\ loadingStates' = [loadingStates EXCEPT ![DefaultTime] = "loaded"]
    /\ created' = [created EXCEPT ![DefaultTime] = Min(MaxCreated, @ + 1)]
    /\ inFlight' = [inFlight EXCEPT ![DefaultTime] = @ - 1]
    /\ initState' = "done"
    /\ lastOp' = Op("assetReady", DefaultTime, "init")
    /\ UNCHANGED <<activeTimeId, switchLock, sw, ld, notified>>
    /\ UNCHANGED notTimeVars

\* asset.ready of the request switchToTime call k issued; the call resumes
AssetReadySwitch(k) ==
    /\ sw[k].pc = "own"
    /\ inFlight[sw[k].to] > 0
    /\ LET id == sw[k].to
           x == resumeSwitch(sw[k], readyEntities(splatEntities, id, activeTimeId), activeTimeId)
       IN /\ splatEntities' = x.ents
          /\ loadingStates' = [loadingStates EXCEPT ![id] = "loaded"]
          /\ created' = [created EXCEPT ![id] = Min(MaxCreated, @ + 1)]
          /\ inFlight' = [inFlight EXCEPT ![id] = @ - 1]
          /\ sw' = [sw EXCEPT ![k] = x.rec]
          /\ switchLock' = IF x.released THEN FALSE ELSE switchLock
          /\ lastOp' = Op("assetReady", id, x.res)
    /\ UNCHANGED <<activeTimeId, initState, ld, notified>>
    /\ UNCHANGED notTimeVars

\* asset.ready of a request a direct call for id issued; the call resolves
AssetReadyLoad(id) ==
    /\ ld[id].own > 0
    /\ inFlight[id] > 0
    /\ splatEntities' = readyEntities(splatEntities, id, activeTimeId)
    /\ loadingStates' = [loadingStates EXCEPT ![id] = "loaded"]
    /\ created' = [created EXCEPT ![id] = Min(MaxCreated, @ + 1)]
    /\ inFlight' = [inFlight EXCEPT ![id] = @ - 1]
    /\ ld' = [ld EXCEPT ![id].own = @ - 1]
    /\ lastOp' = Op("assetReady", id, "resolved")
    /\ UNCHANGED <<activeTimeId, switchLock, initState, sw, notified>>
    /\ UNCHANGED notTimeVars

\* asset 'error' of the request initialize() issued; initialize() rejects
AssetErrorInit ==
    /\ initState = "loading"
    /\ inFlight[DefaultTime] > 0
    /\ loadingStates' = errorMark(loadingStates, DefaultTime)
    /\ inFlight' = [inFlight EXCEPT ![DefaultTime] = @ - 1]
    /\ initState' = "failed"
    /\ lastOp' = Op("assetError", DefaultTime, "rejected")
    /\ UNCHANGED <<activeTimeId, splatEntities, switchLock, created, sw, ld, notified>>
    /\ UNCHANGED notTimeVars

\* the record of a switchToTime call whose await threw
rejectSwitch(r) == [r EXCEPT !.pc = "failed"]

\* asset 'error' of the request switchToTime call k issued; the call rejects
AssetErrorSwitch(k) ==
    /\ sw[k].pc = "own"
    /\ inFlight[sw[k].to] > 0
    /\ loadingStates' = errorMark(loadingStates, sw[k].to)
    /\ inFlight' = [inFlight EXCEPT ![sw[k].to] = @ - 1]
    /\ sw' = [sw EXCEPT ![k] = rejectSwitch(@)]
    /\ lastOp' = Op("assetError", sw[k].to, "rejected")
    /\ UNCHANGED <<activeTimeId, splatEntities, switchLock, created, initState, ld, notified>>
    /\ UNCHANGED notTimeVars

\* asset 'error' of a request a direct call for id issued; the call rejects
AssetErrorLoad(id) ==
    /\ ld[id].own > 0
    /\ inFlight[id] > 0
    /\ loadingStates' = errorMark(loadingStates, id)
    /\ inFlight' = [inFlight EXCEPT ![id] = @ - 1]
    /\ ld' = [ld EXCEPT ![id].own = @ - 1]
    /\ lastOp' = Op("assetError", id, "rejected")
    /\ UNCHANGED <<activeTimeId, splatEntities, switchLock, created, initState, sw, notified>>
    /\ UNCHANGED notTimeVars

\* ------------------------------------------------------ setInterval ticks
\* the condition on which the 100 ms poll of a waiting call resolves
pollDone(ls, timeId) == ls[timeId] = "loaded"

\* poll tick of switchToTime call k that finds the target loaded; the call resumes
PollSwitch(k) ==
    /\ sw[k].pc = "poll"
    /\ pollDone(loadingStates, sw[k].to)
    /\ LET x == resumeSwitch(sw[k], splatEntities, activeTimeId) IN
       /\ splatEntities' = x.ents
       /\ sw' = [sw EXCEPT ![k] = x.rec]
       /\ switchLock' = IF x.released THEN FALSE ELSE switchLock
       /\ lastOp' = Op("pollTick", sw[k].to, x.res)
    /\ UNCHANGED <<activeTimeId, loadingStates, inFlight, created, initState, ld, notified>>
    /\ UNCHANGED notTimeVars

\* poll tick of a direct call for id that finds it loaded; the call resolves
PollLoad(id) ==
    /\ ld[id].poll > 0
    /\ pollDone(loadingStates, id)
    /\ ld' = [ld EXCEPT ![id].poll = @ - 1]
    /\ lastOp' = Op("pollTick", id, "resolved")
    /\ UNCHANGED <<activeTimeId, loadingStates, splatEntities, switchLock, inFlight,
                   created, initState, sw, notified>>
    /\ UNCHANGED notTimeVars

\* -------------------------------------------------------- animation frames
\* a single requestAnimationFrame: the first callback already swaps
rafStep_oneFrame(pc) == "swap"

\* the nested requestAnimationFrame: what the callback pending at pc does
rafStep(pc) == IF pc = "raf1" THEN "again" ELSE "swap"

\* setTimeout given the cooldown in seconds instead of milliseconds
cooldownDelay_seconds == switchCooldown \div 1000

\* the delay of the setTimeout that releases the lock
cooldownDelay == switchCooldown

\* the rest of switchToTime with the callback fired before the active id is updated
swapEffects_notifyFirst(r, st) ==
    LET ents1 == [st.ents EXCEPT ![r.from] = "hidden"]
        previousTime == st.active
        ntf1 == [to |-> r.to, from |-> previousTime, seen |-> st.active]
    IN [ents |-> ents1, active |-> r.to, ntf |-> ntf1,
        rec |-> [r EXCEPT !.pc = "cooldown", !.left = cooldownDelay, !.since = 0,
                          !.trace = @ \o <<"frame", "hide", "notify", "active">>]]

\* the second frame callback and the rest of switchToTime, in program order:
\* fromEntity.enabled = false; previousTime = activeTimeId; activeTimeId = timeId;
\* onTimeChange(timeId, previousTime); setTimeout(release, switchCooldown)
swapEffects(r, st) ==
    LET ents1 == [st.ents EXCEPT ![r.from] = "hidden"]
        previousTime == st.active
        active1 == r.to
        ntf1 == [to |-> r.to, from |-> previousTime, seen |-> active1]
    IN [ents |-> ents1, active |-> active1, ntf |-> ntf1,
        rec |-> [r EXCEPT !.pc = "cooldown", !.left = cooldownDelay, !.since = 0,
                          !.trace = @ \o <<"frame", "hide", "active", "notify">>]]

\* one frame callback of switchToTime call record r in state st
frameOne(r, st) ==
    IF r.pc \notin {"raf1", "raf2"}
    THEN [ents |-> st.ents, active |-> st.active, ntf |-> st.ntf, rec |-> r]
    ELSE IF rafStep(r.pc) = "again"
    THEN [ents |-> st.ents, active |-> st.active, ntf |-> st.ntf,
          rec |-> [r EXCEPT !.pc = "raf2", !.trace = Append(@, "frame")]]
    ELSE swapEffects(r, st)

\* the frame callbacks of calls 1..k, run in order
RECURSIVE frameAll(_)
frameAll(k) ==
    IF k = 0
    THEN [ents |-> splatEntities, active |-> activeTimeId, ntf |-> notified, sw |-> sw]
    ELSE LET st == frameAll(k - 1)
             x == frameOne(sw[k], st)
         IN [ents |-> x.ents, active |-> x.active, ntf |-> x.ntf,
             sw |-> [st.sw EXCEPT ![k] = x.rec]]

\* a rendering frame on which a requestAnimationFrame callback is pending
Frame ==
    /\ \E k \in SwitchSlots : sw[k].pc \in {"raf1", "raf2"}
    /\ LET x == frameAll(MaxSwitches) IN
       /\ splatEntities' = x.ents
       /\ activeTimeId' = x.active
       /\ notified' = x.ntf
       /\ sw' = x.sw
       /\ lastOp' = Op("frame", x.active,
                       IF x.active # activeTimeId THEN "swapped" ELSE "waiting")
    /\ UNCHANGED <<loadingStates, switchLock, inFlight, created, initState, ld>>
    /\ UNCHANGED notTimeVars

\* ------------------------------------------------------------------ timers
\* the clock advances by Quantum while a cooldown timeout is not yet due
Tick ==
    /\ \E k \in SwitchSlots : sw[k].pc = "cooldown" /\ sw[k].left > 0
    /\ sw' = [k \in SwitchSlots |->
                IF sw[k].pc = "cooldown"
                THEN [sw[k] EXCEPT !.left = Max(0, @ - Quantum),
                                   !.since = Min(switchCooldown, @ + Quantum)]
                ELSE sw[k]]
    /\ lastOp' = Op("tick", 0, "ok")
    /\ UNCHANGED <<activeTimeId, loadingStates, splatEntities, switchLock, inFlight,
                   created, initState, ld, notified>>
    /\ UNCHANGED notTimeVars

\* the cooldown timeout of call k fires: this.switchLock = false
CooldownTimer(k) ==
    /\ sw[k].pc = "cooldown"
    /\ sw[k].left = 0
    /\ switchLock' = FALSE
    /\ sw' = [sw EXCEPT ![k] = IdleSwitch]
    /\ lastOp' = Op("cooldownTimer", sw[k].to, "unlocked")
    /\ UNCHANGED <<activeTimeId, loadingStates, splatEntities, inFlight,
                   created, initState, ld, notified>>
    /\ UNCHANGED notTimeVars

\* ----------------------------------------------------------- specification
Next ==
    \/ Initialize
    \/ \E id \in Ids \cup {UnknownTime} : SwitchTo(id)
    \/ Toggle
    \/ \E keyCode \in {"BracketLeft", "BracketRight"} : HandleKeyboard(keyCode)
    \/ \E id \in Ids \cup {UnknownTime} : LoadVariant(id)
    \/ AssetReadyInit
    \/ \E k \in SwitchSlots : AssetReadySwitch(k)
    \/ \E id \in Ids : AssetReadyLoad(id)
    \/ AssetErrorInit
    \/ \E k \in SwitchSlots : AssetErrorSwitch(k)
    \/ \E id \in Ids : AssetErrorLoad(id)
    \/ \E k \in SwitchSlots : PollSwitch(k)
    \/ \E id \in Ids : PollLoad(id)
    \/ Frame
    \/ Tick
    \/ \E k \in SwitchSlots : CooldownTimer(k)

Spec == Init /\ [][Next]_vars

TypeOK ==
    /\ activeTimeId \in Ids
    /\ loadingStates \in [Ids -> {"unloaded", "loading", "loaded", "error"}]
    /\ splatEntities \in [Ids -> {"none", "shown", "hidden"}]
    /\ switchLock \in BOOLEAN
    /\ inFlight \in [Ids -> 0..MaxInFlight]
    /\ created \in [Ids -> 0..MaxCreated]
    /\ initState \in {"new", "loading", "done", "failed"}
    /\ \A k \in SwitchSlots :
          sw[k].pc \in {"idle", "own", "poll", "raf1", "raf2", "cooldown", "failed"}
    /\ ld \in [Ids -> [own : 0..MaxLoadCalls, poll : 0..MaxLoadCalls]]

\* ======================================================================
\* Part 2: CollisionSystem, the mesh arbiter of the movement loop
\* ======================================================================
\* Positions are points of one line, in centimetres: checkCollision uses its
\* arguments only through the length of newPos - currentPos (zero or not)
\* and the distance from currentPos to the hit point.

\* this.collisionRadius, 0.3 m
collisionRadius == 30

\* the setTimeout calls of _setupCollisionMesh (100, 500 and 1000 ms)
ProbeTimers == 3

\* the positions the model tries: 0, Cell, ..., MaxCell * Cell
Points == {i * Cell : i \in 0..MaxCell}

\* Vec3.distance
Dist(a, b) == IF a > b THEN a - b ELSE b - a

\* what rigidbody.raycastFirst can do: return null, return a hit, throw
RayOutcomes == {"miss", "hit", "throw"}

\* the record of a handler without arguments
MeshDid(o) == MeshOp(o, 0, 0, "none", 0, FALSE)

\* checkCollision without the test of physicsReady
checkCollision_noReadyTest(currentPos, newPos, ray, point) ==
    IF ~collisionEnabled \/ collisionMesh = "null" THEN FALSE
    ELSE IF Dist(newPos, currentPos) = 0 THEN FALSE
    ELSE IF ray = "throw" THEN FALSE
    ELSE ray = "hit" /\ Dist(point, currentPos) < collisionRadius

\* checkCollision that blocks on a hit at exactly the radius
checkCollision_inclusive(currentPos, newPos, ray, point) ==
    IF ~collisionEnabled \/ collisionMesh = "null" \/ ~physicsReady THEN FALSE
    ELSE IF Dist(newPos, currentPos) = 0 THEN FALSE
    ELSE IF ray = "throw" THEN FALSE
    ELSE ray = "hit" /\ Dist(point, currentPos) <= collisionRadius

\* checkCollision whose catch block blocks the movement
checkCollision_blockOnError(currentPos, newPos, ray, point) ==
    IF ~collisionEnabled \/ collisionMesh = "null" \/ ~physicsReady THEN FALSE
    ELSE IF Dist(newPos, currentPos) = 0 THEN FALSE
    ELSE IF ray = "throw" THEN TRUE
    ELSE ray = "hit" /\ Dist(point, currentPos) < collisionRadius

\* checkCollision(currentPos, newPos): TRUE when the movement is blocked;
\* ray and point are what raycastFirst does when it is called
checkCollision(currentPos, newPos, ray, point) ==
    IF ~collisionEnabled \/ collisionMesh = "null" \/ ~physicsReady THEN FALSE
    ELSE IF Dist(newPos, currentPos) = 0 THEN FALSE
    ELSE IF ray = "throw" THEN FALSE
    ELSE ray = "hit" /\ Dist(point, currentPos) < collisionRadius

\* the movement loop asks the arbiter about a step from currentPos to newPos
CheckCollision ==
    /\ \E currentPos \in Points, newPos \in Points, ray \in RayOutcomes, point \in Points :
          /\ ray # "hit" => point = 0
          /\ meshOp' = MeshOp("checkCollision", currentPos, newPos, ray, point,
                              checkCollision(currentPos, newPos, ray, point))
    /\ UNCHANGED <<collisionMesh, collisionEnabled, physicsReady, debugVisible,
                   meshAsset, probes, physics>>
    /\ UNCHANGED notMeshVars

\* config.collisionMesh as the template ships it
collisionMeshConfig == "null"

\* the url the application passes: config.collisionMesh || './collision.glb'
meshUrl(cfg) == IF cfg = "null" THEN "./collision.glb" ELSE cfg

\* loadCollisionMesh(url), called once at start-up whatever the configuration
\* says: the asset is created and its load requested
LoadCollisionMesh ==
    /\ meshAsset = "new"
    /\ meshUrl(collisionMeshConfig) # "null"
    /\ meshAsset' = "loading"
    /\ meshOp' = MeshDid("loadCollisionMesh")
    /\ UNCHANGED <<collisionMesh, collisionEnabled, physicsReady, debugVisible,
                   probes, physics>>
    /\ UNCHANGED notMeshVars

\* the asset's ready callback: _setupCollisionMesh
MeshAssetReady ==
    /\ meshAsset = "loading"
    /\ meshAsset' = "ready"
    /\ collisionMesh' = "model"
    /\ probes' = probes + ProbeTimers
    /\ meshOp' = MeshDid("setupCollisionMesh")
    /\ UNCHANGED <<collisionEnabled, physicsReady, debugVisible, physics>>
    /\ UNCHANGED notMeshVars

\* the asset's error callback: the error is logged
MeshAssetError ==
    /\ meshAsset = "loading"
    /\ meshAsset' = "error"
    /\ meshOp' = MeshDid("assetError")
    /\ UNCHANGED <<collisionMesh, collisionEnabled, physicsReady, debugVisible,
                   probes, physics>>
    /\ UNCHANGED notMeshVars

\* _testPhysicsReady without the early return on physicsReady
probeBranch_noSkip(ready, phys, mesh) ==
    IF phys = "none" \/ mesh = "null" THEN "warn"
    ELSE IF phys = "noWorld" THEN "retry"
    ELSE "test"

\* the branch _testPhysicsReady takes:
\*   "skip"  physics already confirmed
\*   "warn"  no rigidbody system or no mesh: warning, nothing else
\*   "retry" no dynamics world yet: warning and a new timer
\*   "test"  the test raycast is made
probeBranch(ready, phys, mesh) ==
    IF ready THEN "skip"
    ELSE IF phys = "none" \/ mesh = "null" THEN "warn"
    ELSE IF phys = "noWorld" THEN "retry"
    ELSE "test"

\* a timer calls _testPhysicsReady; ray is what the test raycast does
TestPhysicsReady(ray) ==
    /\ probes > 0
    /\ LET br == probeBranch(physicsReady, physics, collisionMesh) IN
       /\ probes' = IF br = "retry" THEN probes ELSE probes - 1
       /\ physicsReady' = IF br = "test" THEN ray # "throw" ELSE physicsReady
       /\ collisionEnabled' = IF br = "test" /\ ray # "throw" THEN TRUE
                              ELSE collisionEnabled
       /\ meshOp' = MeshOp("testPhysicsReady", 0, 0,
                           IF br = "test" THEN ray ELSE "none", 0, FALSE)
       /\ br # "test" => ray = "miss"
    /\ UNCHANGED <<collisionMesh, debugVisible, meshAsset, physics>>
    /\ UNCHANGED notMeshVars

\* the engine sets up the rigidbody system, then its dynamics world
PhysicsStep ==
    /\ physics # "world"
    /\ physics' = IF physics = "none" THEN "noWorld" ELSE "world"
    /\ meshOp' = MeshDid("physics")
    /\ UNCHANGED <<collisionMesh, collisionEnabled, physicsReady, debugVisible,
                   meshAsset, probes>>
    /\ UNCHANGED notMeshVars

\* toggleVisibility (V key)
ToggleVisibility ==
    /\ debugVisible' = IF collisionMesh = "null" THEN debugVisible ELSE ~debugVisible
    /\ meshOp' = MeshDid("toggleVisibility")
    /\ UNCHANGED <<collisionMesh, collisionEnabled, physicsReady, meshAsset,
                   probes, physics>>
    /\ UNCHANGED notMeshVars

\* toggleCollision (C key)
ToggleCollision ==
    /\ collisionEnabled' = ~collisionEnabled
    /\ meshOp' = MeshDid("toggleCollision")
    /\ UNCHANGED <<collisionMesh, physicsReady, debugVisible, meshAsset,
                   probes, physics>>
    /\ UNCHANGED notMeshVars

MeshNext ==
    \/ LoadCollisionMesh
    \/ MeshAssetReady
    \/ MeshAssetError
    \/ \E ray \in RayOutcomes : TestPhysicsReady(ray)
    \/ PhysicsStep
    \/ ToggleVisibility
    \/ ToggleCollision
    \/ CheckCollision

\* the collision system alone, the time toggle left as constructed
MeshSpec == Init /\ [][MeshNext]_meshVars

MeshTypeOK ==
    /\ collisionMesh \in {"null", "model"}
    /\ collisionEnabled \in BOOLEAN
    /\ physicsReady \in BOOLEAN
    /\ debugVisible \in BOOLEAN
    /\ meshAsset \in {"new", "loading", "ready", "error"}
    /\ probes \in 0..ProbeTimers
    /\ physics \in {"none", "noWorld", "world"}
    /\ meshOp.res \in BOOLEAN

\* ======================================================================
\* Part 3: the movement loop and its arbiters
\* ======================================================================
\* Lengths are in decimetres.  The verdicts of the three arbiters are inputs
\* of a frame: the loop uses nothing of them but the boolean they return.

\* config.maxY, 10.0 m
maxY == 100

\* moveSpeedDt of a frame: speed * dt * 60, here 6 m
MoveStep == 60

\* the keys the loop reads
MoveKeys == {"KeyW", "KeyS", "KeyA", "KeyD", "KeyQ", "KeyE"}

\* the sets of keys held down in a frame: none, each key alone, and W with Q
KeySets == {{}} \cup {{k} : k \in MoveKeys} \cup {{"KeyW", "KeyQ"}}

\* the joystick and the up/down buttons (movement): idle, pushed forward, up held
Joys == {[forward |-> 0, right |-> 0, up |-> FALSE, down |-> FALSE],
         [forward |-> 1, right |-> 0, up |-> FALSE, down |-> FALSE],
         [forward |-> 0, right |-> 0, up |-> TRUE, down |-> FALSE]}

\* camera orientations: level, and pitched up by the angle of sine 4/5 (the
\* pitch is clamped to +-85 degrees), both heading along x
Looks == {"level", "up"}

\* forward.clone().mulScalar(k): in walk mode forward is flattened and
\* normalised first, in fly mode it keeps its vertical part
forwardStep(look, fly, k) ==
    IF look = "up" /\ fly THEN Vec((3 * k) \div 5, (4 * k) \div 5, 0)
    ELSE Vec(k, 0, 0)

\* right.clone().mulScalar(k): camera.right is horizontal
rightStep(k) == Vec(0, 0, k)

\* newPos.y after the Q / up branch: clamped only when that branch runs
liftTo(y, up, v) == IF up THEN Min(y + v, maxY) ELSE y

\* 1 for a key that is held down
Held(keys, k) == IF k \in keys THEN 1 ELSE 0

\* how many times forward is added to newPos: W, S and the joystick
forwardCount(keys, joy) ==
    Held(keys, "KeyW") - Held(keys, "KeyS")
    + (IF joy.forward # 0 \/ joy.right # 0 THEN joy.forward ELSE 0)

\* how many times right is added to newPos: D, A and the joystick
rightCount(keys, joy) ==
    Held(keys, "KeyD") - Held(keys, "KeyA")
    + (IF joy.forward # 0 \/ joy.right # 0 THEN joy.right ELSE 0)

\* the vertical step of the Q/E branches, taken after the horizontal moves
vertical(y, keys, joy, fly, s) ==
    LET up == IF fly THEN "KeyQ" \in keys ELSE "KeyQ" \in keys \/ joy.up
        down == IF fly THEN "KeyE" \in keys ELSE "KeyE" \in keys \/ joy.down
        v == IF fly THEN s ELSE s \div 2
    IN liftTo(y, up, v) - (IF down THEN v ELSE 0)

\* newPos as the loop computes it from currentPos and the inputs of the frame
candidate(pos, keys, joy, look, fly, s) ==
    LET f == forwardStep(look, fly, s)
        nf == forwardCount(keys, joy)
    IN Vec(pos.x + nf * f.x,
           vertical(pos.y + nf * f.y, keys, joy, fly, s),
           pos.z + rightCount(keys, joy) * rightStep(s).z)

\* arbitration that goes on asking after a rejection
arbitrate_askAll(fly, wallOn, portal, meshHit, wallHit, portalHit) ==
    LET wall == IF wallOn THEN <<"wall">> ELSE <<>>
        port == IF portal THEN <<"portal">> ELSE <<>>
    IN IF fly THEN [asked |-> <<>>, blocked |-> "none"]
       ELSE [asked |-> <<"mesh">> \o wall \o port,
             blocked |-> IF meshHit THEN "mesh"
                         ELSE IF wallOn /\ wallHit THEN "wall"
                         ELSE IF portal /\ portalHit THEN "portal"
                         ELSE "none"]

\* arbitration that is not switched off by fly mode
arbitrate_inFlight(fly, wallOn, portal, meshHit, wallHit, portalHit) ==
    LET wall == IF wallOn THEN <<"wall">> ELSE <<>>
        port == IF portal THEN <<"portal">> ELSE <<>>
    IN IF meshHit THEN [asked |-> <<"mesh">>, blocked |-> "mesh"]
       ELSE IF wallOn /\ wallHit THEN [asked |-> <<"mesh">> \o wall, blocked |-> "wall"]
       ELSE IF portal /\ portalHit
       THEN [asked |-> <<"mesh">> \o wall \o port, blocked |-> "portal"]
       ELSE [asked |-> <<"mesh">> \o wall \o port, blocked |-> "none"]

\* the collision block of the loop: the arbiters asked, in order, and the one
\* that rejected; meshHit, wallHit and portalHit are what each would return
arbitrate(fly, wallOn, portal, meshHit, wallHit, portalHit) ==
    LET wall == IF wallOn THEN <<"wall">> ELSE <<>>
        port == IF portal THEN <<"portal">> ELSE <<>>
    IN IF fly THEN [asked |-> <<>>, blocked |-> "none"]
       ELSE IF meshHit THEN [asked |-> <<"mesh">>, blocked |-> "mesh"]
       ELSE IF wallOn /\ wallHit THEN [asked |-> <<"mesh">> \o wall, blocked |-> "wall"]
       ELSE IF portal /\ portalHit
       THEN [asked |-> <<"mesh">> \o wall \o port, blocked |-> "portal"]
       ELSE [asked |-> <<"mesh">> \o wall \o port, blocked |-> "none"]

\* the candidates the model follows
InReach(p) ==
    /\ Dist(p.x, startPosition.x) <= MaxReach
    /\ Dist(p.z, startPosition.z) <= MaxReach
    /\ p.y >= startPosition.y - MaxReach
    /\ p.y <= maxY + MaxReach

\* the frame that keeps the rejected candidate's height
commit_keepHeight(pos, newPos, blocked) ==
    IF blocked = "none" THEN newPos ELSE [pos EXCEPT !.y = newPos.y]

\* the camera position after the frame: camera.setPosition(newPos) unless an
\* arbiter rejected and the handler returned
commit(pos, newPos, blocked) == IF blocked = "none" THEN newPos ELSE pos

\* one frame of app.on('update')
Update ==
    /\ frames < MaxFrames
    /\ frames' = frames + 1
    /\ \E keys \in KeySets, joy \in Joys, look \in Looks,
          meshHit \in BOOLEAN, wallHit \in BOOLEAN, portalHit \in BOOLEAN :
          LET newPos == candidate(camPos, keys, joy, look, flyMode, MoveStep)
              v == arbitrate(flyMode, wallCollisionEnabled, portalSystem,
                             meshHit, wallHit, portalHit)
              passed == v.blocked = "none"
          IN /\ InReach(newPos)
             /\ camPos' = commit(camPos, newPos, v.blocked)
             /\ portalPos' = IF passed /\ portalSystem THEN newPos ELSE portalPos
             /\ navOp' = NavOp("update", newPos, v.asked, v.blocked, flyMode,
                               passed /\ portalSystem,
                               IF passed THEN "kept" ELSE "reset")
    /\ UNCHANGED <<flyMode, wallCollisionEnabled, portalSystem>>
    /\ UNCHANGED notNavVars

\* O key
ToggleFlyMode ==
    /\ flyMode' = ~flyMode
    /\ navOp' = NavDid("flyMode")
    /\ UNCHANGED <<camPos, wallCollisionEnabled, portalSystem, portalPos, frames>>
    /\ UNCHANGED notNavVars

\* B key
ToggleWallCollision ==
    /\ wallCollisionEnabled' = ~wallCollisionEnabled
    /\ navOp' = NavDid("wallCollision")
    /\ UNCHANGED <<camPos, flyMode, portalSystem, portalPos, frames>>
    /\ UNCHANGED notNavVars

\* R key: camera.setPosition(startPosition)
ResetPosition ==
    /\ camPos' = startPosition
    /\ navOp' = NavDid("reset")
    /\ UNCHANGED <<flyMode, wallCollisionEnabled, portalSystem, portalPos, frames>>
    /\ UNCHANGED notNavVars

\* portalSystem = new PortalSystem(...), once the splat has loaded
CreatePortal ==
    /\ ~portalSystem
    /\ portalSystem' = TRUE
    /\ navOp' = NavDid("portal")
    /\ UNCHANGED <<camPos, flyMode, wallCollisionEnabled, portalPos, frames>>
    /\ UNCHANGED notNavVars

NavNext ==
    \/ Update
    \/ ToggleFlyMode
    \/ ToggleWallCollision
    \/ ResetPosition
    \/ CreatePortal

\* the movement loop alone
NavSpec == Init /\ [][NavNext]_navVars

NavTypeOK ==
    /\ camPos \in [x : Int, y : Int, z : Int]
    /\ InReach(camPos)
    /\ flyMode \in BOOLEAN
    /\ wallCollisionEnabled \in BOOLEAN
    /\ portalSystem \in BOOLEAN
    /\ frames \in 0..MaxFrames
    /\ navOp.blocked \in {"none", "mesh", "wall", "portal"}

\* ======================================================================
\* Part 4: the boundary arbiter's segment test (lineSegmentsIntersect)
\* ======================================================================
\* Coordinates are whole grid points, Grid to the metre, so every product
\* and difference below is exact and a quotient n / d is compared with 0
\* and 1 through the signs of n, d and d - n.

\* 1 / 0.0001, the threshold under which two lines count as parallel
EpsInverse == 10000

Abs(n) == IF n < 0 THEN -n ELSE n

\* Math.abs(denom) < 0.0001, denom given in squared grid units (a
\* denominator of a square metre or more is decided without the product)
nearParallel(denom) ==
    /\ Abs(denom) < Grid * Grid
    /\ Abs(denom) * EpsInverse < Grid * Grid

\* n / d >= 0 && n / d <= 1, for d # 0
InUnit(n, d) == IF d > 0 THEN 0 <= n /\ n <= d ELSE n <= 0 /\ d <= n

\* the test with the second segment taken as a ray (no u <= 1)
lineSegmentsIntersect_ray(x1, y1, x2, y2, x3, y3, x4, y4) ==
    LET denom == (x1 - x2) * (y3 - y4) - (y1 - y2) * (x3 - x4)
        t == (x1 - x3) * (y3 - y4) - (y1 - y3) * (x3 - x4)
        u == -((x1 - x2) * (y1 - y3) - (y1 - y2) * (x1 - x3))
    IN IF nearParallel(denom) THEN FALSE
       ELSE InUnit(t, denom) /\ (IF denom > 0 THEN 0 <= u ELSE u <= 0)

\* the test with parallel meaning a denominator of exactly zero
lineSegmentsIntersect_exactZero(x1, y1, x2, y2, x3, y3, x4, y4) ==
    LET denom == (x1 - x2) * (y3 - y4) - (y1 - y2) * (x3 - x4)
        t == (x1 - x3) * (y3 - y4) - (y1 - y3) * (x3 - x4)
        u == -((x1 - x2) * (y1 - y3) - (y1 - y2) * (x1 - x3))
    IN IF denom = 0 THEN FALSE
       ELSE InUnit(t, denom) /\ InUnit(u, denom)

\* the test with the second segment taken as an infinite line (u unbounded)
lineSegmentsIntersect_lines(x1, y1, x2, y2, x3, y3, x4, y4) ==
    LET denom == (x1 - x2) * (y3 - y4) - (y1 - y2) * (x3 - x4)
        t == (x1 - x3) * (y3 - y4) - (y1 - y3) * (x3 - x4)
    IN IF nearParallel(denom) THEN FALSE
       ELSE InUnit(t, denom)

\* lineSegmentsIntersect: t and u are the numerators of the code's t and u
lineSegmentsIntersect(x1, y1, x2, y2, x3, y3, x4, y4) ==
    LET denom == (x1 - x2) * (y3 - y4) - (y1 - y2) * (x3 - x4)
        t == (x1 - x3) * (y3 - y4) - (y1 - y3) * (x3 - x4)
        u == -((x1 - x2) * (y1 - y3) - (y1 - y2) * (x1 - x3))
    IN IF nearParallel(denom) THEN FALSE
       ELSE InUnit(t, denom) /\ InUnit(u, denom)

\* the coordinates and the segments tried
Coords == 0..MaxCoord
GridSegs == {Seg(a, b, c, d) : a \in Coords, b \in Coords, c \in Coords, d \in Coords}

\* segments of metres: one along x, and three across it that cross it,
\* stop short of it, and end on it
Along == Seg(0, 0, 10 * Grid, 0)
Across == Seg(5 * Grid, -5 * Grid, 5 * Grid, 5 * Grid)
Short == Seg(5 * Grid, Grid, 5 * Grid, 5 * Grid)
Ending == Seg(5 * Grid, 0, 5 * Grid, 5 * Grid)
Segs == GridSegs \cup {Along, Across, Short, Ending}

\* the test applied to segment a and segment b
intersects(a, b) ==
    lineSegmentsIntersect(a.x1, a.y1, a.x2, a.y2, b.x1, b.y1, b.x2, b.y2)

\* one call of the test, and the call with the segments exchanged
Intersect ==
    /\ segOp.op = "none"
    /\ \E a \in Segs, b \in Segs :
          segOp' = [op |-> "intersect", a |-> a, b |-> b,
                    res |-> intersects(a, b), rev |-> intersects(b, a)]
    /\ UNCHANGED notSegVars

SegNext == Intersect

\* the segment test alone, one call per behaviour
SegSpec == Init /\ [][SegNext]_segVars

\* ======================================================================
\* Part 5: the wall boundary (wall-system.js) and the walk among the walls
\* ======================================================================
\* The operators take the collection as their first argument, walls, which
\* is WALL_SEGMENTS at the time of the call.  A name argument of "" is a
\* call without a name.

\* `wall_${WALL_SEGMENTS.length}`
autoNames == <<"wall_0", "wall_1", "wall_2", "wall_3", "wall_4", "wall_5">>
autoName(walls) == autoNames[Len(walls) + 1]

\* the segment test applied to the move and to a stored segment
hitsWall(oldPos, newPos, segment) ==
    lineSegmentsIntersect(oldPos.x, oldPos.z, newPos.x, newPos.z,
                          segment.start.x, segment.start.z,
                          segment.end.x, segment.end.z)

\* checkWallCollision: true at the first stored segment the move meets
checkWallCollision(walls, oldPos, newPos) ==
    \E i \in 1..Len(walls) : hitsWall(oldPos, newPos, walls[i])

\* the scan that answers with the last stored segment the move meets
getWallCollisionInfo_last(walls, oldPos, newPos) ==
    LET met == {i \in 1..Len(walls) : hitsWall(oldPos, newPos, walls[i])}
    IN IF met = {} THEN NoInfo
       ELSE LET i == CHOOSE k \in met : \A j \in met : j <= k
            IN [wall |-> walls[i].name, start |-> walls[i].start,
                end |-> walls[i].end]

\* getWallCollisionInfo: the first stored segment the move meets, or null
getWallCollisionInfo(walls, oldPos, newPos) ==
    LET met == {i \in 1..Len(walls) : hitsWall(oldPos, newPos, walls[i])}
    IN IF met = {} THEN NoInfo
       ELSE LET i == CHOOSE k \in met : \A j \in met : k <= j
            IN [wall |-> walls[i].name, start |-> walls[i].start,
                end |-> walls[i].end]

\* the push that names every segment by the count
addWallSegment_autoOnly(walls, start, end, name, color) ==
    Append(walls, Wall(autoName(walls), Pt(start.x, start.z), Pt(end.x, end.z), color))

\* addWallSegment: WALL_SEGMENTS.push
addWallSegment(walls, start, end, name, color) ==
    Append(walls, Wall(IF name # "" THEN name ELSE autoName(walls),
                       Pt(start.x, start.z), Pt(end.x, end.z), color))

\* findIndex(s => s.name === name), 0 for -1
findIndex(walls, name) ==
    LET named == {i \in 1..Len(walls) : walls[i].name = name}
    IN IF named = {} THEN 0 ELSE CHOOSE k \in named : \A j \in named : k <= j

\* splice(index, 1)
splice(walls, index) ==
    SubSeq(walls, 1, index - 1) \o SubSeq(walls, index + 1, Len(walls))

\* the removal that drops every segment of that name
removeWallSegment_all(walls, name) ==
    [walls |-> SelectSeq(walls, LAMBDA s : s.name # name),
     res |-> findIndex(walls, name) > 0]

\* removeWallSegment: the collection left and the value returned
removeWallSegment(walls, name) ==
    LET index == findIndex(walls, name)
    IN IF index > 0 THEN [walls |-> splice(walls, index), res |-> TRUE]
       ELSE [walls |-> walls, res |-> FALSE]

\* getWallSegment: find(s => s.name === name), NoWall for undefined
getWallSegment(walls, name) ==
    LET index == findIndex(walls, name)
    IN IF index > 0 THEN walls[index] ELSE NoWall

\* the segments handed to addWallSegment: two short ones across the way
\* from the start position along z
NewWalls ==
    { [start |-> Pt(walkStart.x - 1, walkStart.z + 1),
       end |-> Pt(walkStart.x + 2, walkStart.z + 1)],
      [start |-> Pt(walkStart.x - 2, walkStart.z - 1),
       end |-> Pt(walkStart.x + 1, walkStart.z - 1)] }

\* the name arguments of addWallSegment ("": none) and of the calls by name
AddNames == {"", "door"}
CallNames == {"wall_0", "wall_2", "wall_3", "door", "nowhere"}

\* the end points of the moves tested, a metre apart, and their heights
MovePoints ==
    { Pt(walkStart.x, walkStart.z - Grid), Pt(walkStart.x, walkStart.z + Grid),
      Pt(walkStart.x + Grid, walkStart.z) }
Heights == {0, 2 * Grid}

\* addWallSegment(start, end, name)
AddWallSegment ==
    /\ Len(WALL_SEGMENTS) < MaxWalls
    /\ \E g \in NewWalls, n \in AddNames :
          LET given == IF n # "" THEN n ELSE autoName(WALL_SEGMENTS)
              fresh == \A i \in 1..Len(WALL_SEGMENTS) : WALL_SEGMENTS[i].name # given
          IN /\ WALL_SEGMENTS' = addWallSegment(WALL_SEGMENTS, g.start, g.end, n,
                                                defaultColor)
             /\ unnamedOnly' = (unnamedOnly /\ n = "")
             /\ wallOp' = [WallOp("add", given,
                                  Wall(given, g.start, g.end, defaultColor),
                                  TRUE, fresh, walkStart, walkStart, NoInfo)
                            EXCEPT !.before = WALL_SEGMENTS]
    /\ UNCHANGED <<wallConfig, walkPos>>
    /\ UNCHANGED notWallVars

\* removeWallSegment(name); the mark tells that the call before this one
\* added a segment under this name to a collection that had none of it
RemoveWallSegment ==
    /\ \E n \in CallNames :
          LET r == removeWallSegment(WALL_SEGMENTS, n)
              i == findIndex(WALL_SEGMENTS, n)
          IN /\ WALL_SEGMENTS' = r.walls
             /\ wallOp' = WallOp("remove", n,
                                 IF i > 0 THEN WALL_SEGMENTS[i] ELSE NoWall, r.res,
                                 wallOp.op = "add" /\ wallOp.mark /\ wallOp.name = n,
                                 walkStart, walkStart, NoInfo)
    /\ UNCHANGED <<wallConfig, walkPos, unnamedOnly>>
    /\ UNCHANGED notWallVars

\* getWallSegment(name)
GetWallSegment ==
    /\ \E n \in CallNames :
          LET w == getWallSegment(WALL_SEGMENTS, n)
          IN wallOp' = WallOp("get", n, w, w # NoWall, FALSE, walkStart, walkStart,
                              NoInfo)
    /\ UNCHANGED <<WALL_SEGMENTS, wallConfig, walkPos, unnamedOnly>>
    /\ UNCHANGED notWallVars

\* checkWallCollision(oldPos, newPos) and getWallCollisionInfo(oldPos, newPos)
\* for one move; the record keeps the (x, z) of the two positions
CheckMove ==
    /\ \E a \in MovePoints, b \in MovePoints, y \in Heights :
          LET oldPos == Vec(a.x, 0, a.z)
              newPos == Vec(b.x, y, b.z)
          IN wallOp' = WallOp("check", "", NoWall,
                              checkWallCollision(WALL_SEGMENTS, oldPos, newPos), FALSE,
                              a, b,
                              getWallCollisionInfo(WALL_SEGMENTS, oldPos, newPos))
    /\ UNCHANGED <<WALL_SEGMENTS, wallConfig, walkPos, unnamedOnly>>
    /\ UNCHANGED notWallVars

\* wall_config.json: the segments of data.segments, some without a name
WallConfigs ==
    { << [start |-> Pt(walkStart.x + 1, walkStart.z),
          end |-> Pt(walkStart.x, walkStart.z + 1), name |-> "", color |-> defaultColor] >>,
      << [start |-> Pt(walkStart.x - 1, walkStart.z + 2),
          end |-> Pt(walkStart.x + 1, walkStart.z), name |-> "gate", color |-> defaultColor],
         [start |-> Pt(walkStart.x - Grid, walkStart.z - 1),
          end |-> Pt(walkStart.x + Grid, walkStart.z - 1), name |-> "", color |-> defaultColor] >> }

\* data.segments.forEach(segment => addWallSegment(...)) on the collection walls
RECURSIVE addAll(_, _)
addAll(walls, segments) ==
    IF segments = <<>> THEN walls
    ELSE addAll(addWallSegment(walls, Head(segments).start, Head(segments).end,
                               Head(segments).name, Head(segments).color),
                Tail(segments))

\* clearAllWalls: WALL_SEGMENTS.length = 0
clearAllWalls(walls) == SubSeq(walls, 1, 0)

\* loadWalls, once wall_config.json has arrived with its segments
LoadWalls ==
    /\ wallConfig = "pending"
    /\ wallConfig' = "loaded"
    /\ \E data \in WallConfigs :
          WALL_SEGMENTS' = addAll(clearAllWalls(WALL_SEGMENTS), data)
    /\ unnamedOnly' = FALSE
    /\ wallOp' = WallDid("loadWalls")
    /\ UNCHANGED walkPos
    /\ UNCHANGED notWallVars

\* loadWalls, when wall_config.json cannot be fetched: the default segments stay
LoadWallsFailed ==
    /\ wallConfig = "pending"
    /\ wallConfig' = "failed"
    /\ wallOp' = WallDid("loadWalls")
    /\ UNCHANGED <<WALL_SEGMENTS, walkPos, unnamedOnly>>
    /\ UNCHANGED notWallVars

\* the displacements of one frame: what the keys and the joystick add up
\* to, from nothing to MaxStep grid points along each axis
Steps == {Pt(dx, dz) : dx \in -MaxStep..MaxStep, dz \in -MaxStep..MaxStep}

\* the camera within the region followed
InWalk(p) ==
    /\ Dist(p.x, walkStart.x) <= MaxWalk
    /\ Dist(p.z, walkStart.z) <= MaxWalk

\* one frame of the movement loop along the ground: the candidate position,
\* the arbiters in their order with the boundary's verdict computed from the
\* stored segments, and the commit
WalkFrame ==
    /\ \E d \in Steps, meshHit \in BOOLEAN, portalHit \in BOOLEAN :
          LET newPos == Pt(walkPos.x + d.x, walkPos.z + d.z)
              v == arbitrate(flyMode, wallCollisionEnabled, portalSystem, meshHit,
                             checkWallCollision(WALL_SEGMENTS, walkPos, newPos),
                             portalHit)
          IN /\ InWalk(newPos)
             /\ walkPos' = commit(walkPos, newPos, v.blocked)
             /\ wallOp' = WallOp("frame", v.blocked, NoWall, v.blocked = "none",
                                 flyMode \/ ~wallCollisionEnabled, walkPos, newPos,
                                 NoInfo)
    /\ UNCHANGED <<WALL_SEGMENTS, wallConfig, unnamedOnly>>
    /\ UNCHANGED notWallVars

WalkNext ==
    \/ LoadWalls
    \/ LoadWallsFailed
    \/ WalkFrame
    \/ ToggleFlyMode
    \/ ToggleWallCollision

\* what the walk among the walls changes
walkVars == <<wallVars, flyMode, wallCollisionEnabled, navOp>>

\* the camera walking among the walls of the configuration
WalkSpec == Init /\ [][WalkNext]_walkVars

WallNext ==
    \/ AddWallSegment
    \/ RemoveWallSegment
    \/ GetWallSegment
    \/ CheckMove

\* the wall boundary under the calls of its interface
WallSpec == Init /\ [][WallNext]_wallVars

\* ======================================================================
\* Part 6: the placement of a time state's entity (loadTimeState, ready)
\* ======================================================================
\* A matrix is the 16 numbers of pc.Mat4.data, column by column; here they
\* are whole numbers, with rotations by quarter turns.  A rotation is kept
\* as the nine numbers of its matrix, column by column.

\* element (row r, column c) of matrix m, rows and columns from 0
At(m, r, c) == m[c * 4 + r + 1]

\* Mat4.mul: a * b
mul(a, b) ==
    [i \in 1..16 |->
        LET r == (i - 1) % 4
            c == (i - 1) \div 4
        IN At(a, r, 0) * At(b, 0, c) + At(a, r, 1) * At(b, 1, c)
           + At(a, r, 2) * At(b, 2, c) + At(a, r, 3) * At(b, 3, c)]

identityMat == <<1, 0, 0, 0,  0, 1, 0, 0,  0, 0, 1, 0,  0, 0, 0, 1>>

\* setFromEulerAngles(-90, 0, 0): y' = z, z' = -y (Z-up to Y-up)
zToYMat == <<1, 0, 0, 0,  0, 0, -1, 0,  0, 1, 0, 0,  0, 0, 0, 1>>

\* the length of (x, y, z), for the vectors whose length is a whole number
Length(x, y, z) == CHOOSE n \in 0..(MaxScale + 1) : n * n = x * x + y * y + z * z

\* getTranslation and getScale
getTranslation(m) == <<m[13], m[14], m[15]>>
getScale(m) ==
    <<Length(m[1], m[2], m[3]), Length(m[5], m[6], m[7]), Length(m[9], m[10], m[11])>>

\* the rotation part of m with the scale divided out of its three columns
\* (rotMat.data[0..10] *= 1 / scale), as the rotation Quat.setFromMat4 reads
unscaled(m, scale) ==
    <<m[1] \div scale[1], m[2] \div scale[1], m[3] \div scale[1],
      m[5] \div scale[2], m[6] \div scale[2], m[7] \div scale[2],
      m[9] \div scale[3], m[10] \div scale[3], m[11] \div scale[3]>>

\* transformData && Array.isArray(transformData) && transformData.length === 16
hasTransform(transformData) == Len(transformData) = 16

\* the placement that applies the alignment matrix alone
placement_alignmentOnly(transformData) ==
    IF hasTransform(transformData)
    THEN [pos |-> getTranslation(transformData), scale |-> getScale(transformData),
          rot |-> unscaled(transformData, getScale(transformData))]
    ELSE [pos |-> <<0, 0, 0>>, scale |-> <<1, 1, 1>>,
          rot |-> unscaled(zToYMat, <<1, 1, 1>>)]

\* the local position, rotation and scale the ready callback gives the entity
placement(transformData) ==
    IF hasTransform(transformData)
    THEN LET alignmentMat == transformData
             combinedMat == mul(zToYMat, alignmentMat)
             pos == getTranslation(combinedMat)
             scale == getScale(combinedMat)
         IN [pos |-> pos, scale |-> scale, rot |-> unscaled(combinedMat, scale)]
    ELSE [pos |-> <<0, 0, 0>>, scale |-> <<1, 1, 1>>,
          rot |-> unscaled(zToYMat, <<1, 1, 1>>)]

\* a quarter turn about z, and the turns about z tried
turnZ == <<0, 1, 0, 0,  -1, 0, 0, 0,  0, 0, 1, 0,  0, 0, 0, 1>>
Turns == {identityMat, turnZ, mul(turnZ, turnZ), mul(turnZ, mul(turnZ, turnZ))}

translation(x, y, z) == <<1, 0, 0, 0,  0, 1, 0, 0,  0, 0, 1, 0,  x, y, z, 1>>
scaling(k) == <<k, 0, 0, 0,  0, k, 0, 0,  0, 0, k, 0,  0, 0, 0, 1>>

\* config.transforms[timeId]: nothing, an array that is not a matrix, or an
\* alignment matrix (a turn, scaled, then moved)
Transforms ==
    {<<>>, <<1, 0, 0>>}
    \cup {mul(translation(x, y, z), mul(r, scaling(k))) :
             x \in 0..MaxShift, y \in 0..MaxShift, z \in 0..MaxShift,
             r \in Turns, k \in 1..MaxScale}

\* the ready callback placing the entity of a time state
Place ==
    /\ placeOp.op = "none"
    /\ \E transformData \in Transforms :
          LET p == placement(transformData)
          IN placeOp' = [op |-> "place", transform |-> transformData,
                         pos |-> p.pos, rot |-> p.rot, scale |-> p.scale]
    /\ UNCHANGED notPlaceVars

PlaceNext == Place

\* the placement alone, one entity per behaviour
PlaceSpec == Init /\ [][PlaceNext]_placeVars

\* ----------------------------------------------------------- the fair system
\* The asset loader answers every request with ready or error, the browser
\* keeps rendering frames, and interval and timeout callbacks keep firing.
\* Nothing obliges the page to call switchToTime or loadTimeState again.
Fairness ==
    /\ WF_vars(AssetReadyInit \/ AssetErrorInit)
    /\ \A k \in SwitchSlots : WF_vars(AssetReadySwitch(k) \/ AssetErrorSwitch(k))
    /\ \A id \in Ids : WF_vars(AssetReadyLoad(id) \/ AssetErrorLoad(id))
    /\ \A k \in SwitchSlots : WF_vars(PollSwitch(k))
    /\ \A id \in Ids : WF_vars(PollLoad(id))
    /\ WF_vars(Frame)
    /\ WF_vars(Tick)
    /\ \A k \in SwitchSlots : WF_vars(CooldownTimer(k))

LiveSpec == Spec /\ Fairness

\* ======================================================================
\* Properties of the switch protocol
\* ======================================================================
\* the handlers that end in a call of switchToTime
SwitchOps == {"switchTo", "toggle", "BracketLeft", "BracketRight"}

\* the switchToTime calls that hold the lock (between acquisition and release)
Holders == {k \in SwitchSlots : sw[k].pc # "idle"}

\* C1: at most one switchToTime call is between acquiring the lock and its
\* release, however requests, loader callbacks, frames and timers interleave;
\* in particular no two calls are in the show / two frames / hide window,
\* and a call in that window holds the lock.
C1_SwitchesSerialized ==
    /\ Cardinality(Holders) <= 1
    /\ Cardinality({k \in SwitchSlots : sw[k].pc \in {"raf1", "raf2"}}) <= 1
    /\ \A k \in Holders : switchLock

\* a request arrived during the handoff window of another switch
C1_Witness ==
    /\ \E k \in SwitchSlots : sw[k].pc = "raf2"
    /\ lastOp.op \in SwitchOps
    /\ lastOp.res = "locked"

\* C2: a switch request for a non-active id that arrives while the lock is
\* held is dropped: the step changes nothing of the program's state (active
\* id, visibility, load states, lock, load requests, pending calls), so
\* nothing is left behind that could run it later.
C2_LockedRequestDropped ==
    [][(/\ lastOp'.op \in SwitchOps
        /\ lastOp'.id # activeTimeId
        /\ switchLock)
       => (UNCHANGED progvars /\ lastOp'.res = "locked")]_vars

\* a switchTo was dropped while the lock holder was waiting for its load
C2_Witness ==
    /\ lastOp.op = "switchTo"
    /\ lastOp.res = "locked"
    /\ lastOp.id # activeTimeId
    /\ \E k \in SwitchSlots : sw[k].pc = "own" /\ inFlight[sw[k].to] = 1

\* C3: a second switchTo for the target of a switch that is pending or in its
\* cooldown changes nothing (no second transition, no load request), both
\* before the first call has updated the active id and after it.
C3_RepeatedSwitchIsNoOp ==
    [][\A k \in SwitchSlots :
         (/\ sw[k].pc # "idle"
          /\ sw[k].to \in Ids
          /\ lastOp'.op = "switchTo"
          /\ lastOp'.id = sw[k].to)
         => (UNCHANGED progvars /\ lastOp'.res \in {"locked", "same"})]_vars

\* the second request arrived during the cooldown, after the active id changed
C3_Witness ==
    \E k \in SwitchSlots :
        /\ sw[k].pc = "cooldown"
        /\ sw[k].left > 0
        /\ activeTimeId = sw[k].to
        /\ lastOp = Op("switchTo", sw[k].to, "same")

\* C4: switchTo(active id) changes nothing of the program's state and does
\* not take the lock, whether the lock is held or not.
C4_SwitchToActiveIsNoOp ==
    [][(lastOp'.op = "switchTo" /\ lastOp'.id = activeTimeId)
       => (UNCHANGED progvars /\ lastOp'.res = "same")]_vars

\* switchTo(active id) was called with the lock free and the active time loaded
C4_Witness ==
    /\ lastOp = Op("switchTo", activeTimeId, "same")
    /\ ~switchLock
    /\ loadingStates[activeTimeId] = "loaded"

\* ======================================================================
\* Properties of loading
\* ======================================================================
\* C5: at most one load request per time state is in flight, and a direct
\* loadTimeState(id) that finds id loading issues no request and joins the
\* callers polling for the load in flight.
C5_AtMostOneLoadInFlight ==
    /\ [](\A id \in Ids :
            /\ inFlight[id] <= 1
            /\ (loadingStates[id] = "loading" <=> inFlight[id] = 1))
    /\ [][\A id \in Ids :
            (/\ lastOp'.op = "loadTimeState"
             /\ lastOp'.id = id
             /\ loadingStates[id] = "loading")
            => (/\ inFlight' = inFlight
                /\ loadingStates' = loadingStates
                /\ ld'[id].poll = ld[id].poll + 1
                /\ ld'[id].own = ld[id].own)]_vars

\* a direct loadTimeState arrived while the load of the same id was in flight
C5_Witness ==
    \E id \in Ids :
        /\ lastOp = Op("loadTimeState", id, "poll")
        /\ ld[id].poll > 0
        /\ inFlight[id] = 1

\* C6: an entity is created at most once per time state: once a time state
\* is loaded no step creates its entity again, issues a load request for it
\* or drops it, and loadTimeState on it returns the entity and changes nothing.
C6_EntityCreatedOnce ==
    /\ [](\A id \in Ids :
            /\ created[id] <= 1
            /\ (created[id] = 1 <=> splatEntities[id] # "none")
            /\ (created[id] = 1 <=> loadingStates[id] = "loaded"))
    /\ [][\A id \in Ids :
            loadingStates[id] = "loaded"
            => (/\ created'[id] = created[id]
                /\ inFlight'[id] = 0
                /\ loadingStates'[id] = "loaded"
                /\ splatEntities'[id] # "none"
                /\ (lastOp'.op = "loadTimeState" /\ lastOp'.id = id)
                      => (lastOp'.res = "entity" /\ UNCHANGED progvars))]_vars

\* after switching away and back between loaded time states, loadTimeState
\* was called on a loaded one
C6_Witness ==
    /\ notified.to = DefaultTime
    /\ notified.from \in Ids
    /\ created[notified.to] = 1
    /\ created[notified.from] = 1
    /\ lastOp.op = "loadTimeState"
    /\ lastOp.res = "entity"

\* ======================================================================
\* Properties of the active time state
\* ======================================================================
\* a switchToTime call is in its handoff window (target shown, previous not yet hidden)
InHandoff == \E k \in SwitchSlots : sw[k].pc \in {"raf1", "raf2"}

\* C7: once initialize() has resolved, the active id names a declared time
\* state that is loaded and whose entity is visible; outside a handoff
\* window it is the only visible one.
C7_ExactlyOneActive ==
    initState = "done"
    => /\ activeTimeId \in Ids
       /\ loadingStates[activeTimeId] = "loaded"
       /\ splatEntities[activeTimeId] = "shown"
       /\ ~InHandoff => \A id \in Ids : splatEntities[id] = "shown" => id = activeTimeId

\* a switch away from the default time state has completed
C7_Witness ==
    /\ initState = "done"
    /\ activeTimeId # DefaultTime
    /\ notified.to = activeTimeId
    /\ splatEntities[DefaultTime] = "hidden"

\* the position of the first e in seq (0 if there is none)
IndexOf(seq, e) ==
    IF \E i \in 1..Len(seq) : seq[i] = e
    THEN CHOOSE i \in 1..Len(seq) : seq[i] = e /\ \A j \in 1..(i - 1) : seq[j] # e
    ELSE 0

\* the number of frame callbacks recorded in seq between positions a and b
FramesBetween(seq, a, b) ==
    Cardinality({i \in (a + 1)..(b - 1) : seq[i] = "frame"})

\* C8: once initialize() has resolved some entity is visible in every state;
\* in the handoff window both the target and the previous time state are
\* visible, and the previous one is hidden only after the target was shown
\* and two frame callbacks have run since.
C8_NoBlankFrame ==
    /\ initState = "done" => \E id \in Ids : splatEntities[id] = "shown"
    /\ \A k \in SwitchSlots :
          /\ sw[k].pc \in {"raf1", "raf2"}
                => (splatEntities[sw[k].to] = "shown" /\ splatEntities[sw[k].from] = "shown")
          /\ IndexOf(sw[k].trace, "hide") > 0
                => /\ IndexOf(sw[k].trace, "show") > 0
                   /\ IndexOf(sw[k].trace, "show") < IndexOf(sw[k].trace, "hide")
                   /\ FramesBetween(sw[k].trace, IndexOf(sw[k].trace, "show"),
                                    IndexOf(sw[k].trace, "hide")) >= 2

\* a switch has hidden the previous time state with the target visible
C8_Witness ==
    \E k \in SwitchSlots :
        /\ initState = "done"
        /\ sw[k].pc = "cooldown"
        /\ splatEntities[sw[k].from] = "hidden"
        /\ splatEntities[sw[k].to] = "shown"

\* the effects of a completed switch, in order
FullTrace == <<"lock", "show", "frame", "frame", "hide", "active", "notify">>

\* C9: a switch that completes has taken the lock, shown the loaded target,
\* let two frames pass, hidden the previous time state, updated the active
\* id and fired the notification, in this order; the lock stays held through
\* all of it and is released only when switchCooldown ms have passed since.
C9_OrderAndCooldown ==
    /\ [](\A k \in SwitchSlots :
            /\ sw[k].pc \in {"own", "poll", "raf1", "raf2", "cooldown"} => switchLock
            /\ IndexOf(sw[k].trace, "show") > 0 => loadingStates[sw[k].to] = "loaded"
            /\ sw[k].pc = "cooldown"
                  => /\ sw[k].trace = FullTrace
                     /\ activeTimeId = sw[k].to
                     /\ notified = [to |-> sw[k].to, from |-> sw[k].from, seen |-> sw[k].to])
    /\ [][\A k \in SwitchSlots :
            (sw[k].pc = "cooldown" /\ ~switchLock') => sw[k].since >= switchCooldown]_vars

\* the cooldown timeout of a completed switch has released the lock
C9_Witness ==
    /\ lastOp.op = "cooldownTimer"
    /\ ~switchLock
    /\ notified.to = activeTimeId
    /\ activeTimeId # DefaultTime

\* ======================================================================
\* Properties of a failed load
\* ======================================================================
\* the handlers that call loadTimeState
CallOps == SwitchOps \cup {"initialize", "loadTimeState"}

C11_FailureRestoresState ==
    [][\A k \in SwitchSlots :
          (sw[k].pc = "own" /\ sw'[k].pc = "failed")
          => /\ activeTimeId' = activeTimeId
             /\ splatEntities' = splatEntities
             /\ loadingStates'[sw[k].to] = "error"
             /\ ~switchLock']_vars

\* ======================================================================
\* Properties of the load states
\* ======================================================================
\* the steps of a load state: request, completion, failure
ForwardSteps ==
    {<<"unloaded", "loading">>, <<"loading", "loaded">>, <<"loading", "error">>}

\* C12 as stated: a load state changes only along unloaded -> loading,
\* loading -> loaded and loading -> error; loaded and error are never left.
C12_OnlyForwardSteps ==
    [][\A id \in Ids :
          loadingStates'[id] # loadingStates[id]
          => <<loadingStates[id], loadingStates'[id]>> \in ForwardSteps]_vars

\* C12: a load state changes only along unloaded -> loading, loading ->
\* loaded, loading -> error, and error -> loading when a call of
\* loadTimeState (direct or from switchToTime) asks for the failed time
\* again; loaded is never left and no callback or timer leaves error.
C12_LoadStateSteps ==
    [][\A id \in Ids :
          loadingStates'[id] # loadingStates[id]
          => \/ <<loadingStates[id], loadingStates'[id]>> \in ForwardSteps
             \/ /\ <<loadingStates[id], loadingStates'[id]>> = <<"error", "loading">>
                /\ lastOp'.op \in CallOps
                /\ lastOp'.id = id
                /\ inFlight'[id] = inFlight[id] + 1]_vars

\* a time whose load failed under a switch is loading again after a direct call
C12_Witness ==
    \E k \in SwitchSlots :
        /\ sw[k].pc = "failed"
        /\ lastOp = Op("loadTimeState", sw[k].to, "own")
        /\ loadingStates[sw[k].to] = "loading"
        /\ inFlight[sw[k].to] = 1

\* C13: initialize() issues one load request, for the default time state;
\* every other time state stays unloaded, with no request and no entity,
\* until a switchToTime or a direct loadTimeState call names it.
C13_InitializeLoadsDefaultOnly ==
    /\ [](\A id \in Ids :
             loadingStates[id] = "unloaded"
             => inFlight[id] = 0 /\ splatEntities[id] = "none")
    /\ [][/\ (initState = "new" /\ initState' # "new")
             => /\ inFlight' = [id \in Ids |-> IF id = DefaultTime THEN 1 ELSE 0]
                /\ loadingStates' =
                      [id \in Ids |-> IF id = DefaultTime THEN "loading" ELSE "unloaded"]
          /\ \A id \in Ids \ {DefaultTime} :
                (loadingStates[id] = "unloaded" /\ loadingStates'[id] # "unloaded")
                => /\ lastOp'.op \in SwitchOps \cup {"loadTimeState"}
                   /\ lastOp'.id = id]_vars

\* initialize() has resolved and no other time state has been touched
C13_Witness ==
    /\ initState = "done"
    /\ lastOp = Op("assetReady", DefaultTime, "init")
    /\ splatEntities[DefaultTime] = "shown"
    /\ \A id \in Ids \ {DefaultTime} :
          /\ loadingStates[id] = "unloaded"
          /\ inFlight[id] = 0
          /\ splatEntities[id] = "none"

\* ======================================================================
\* Properties of the keyboard handler
\* ======================================================================
\* the bracket keys handleKeyboard reacts to
BracketKeys == {"BracketLeft", "BracketRight"}

\* C14: with i the index of the active time state in the declared order, [
\* asks for the time state at max(first, i-1) and ] for the one at
\* min(last, i+1); when that is the active one itself (first and [, last
\* and ]) nothing is requested: no lock taken, no state changed; otherwise
\* the step is a switchToTime call for that time state.
C14_KeyboardClamps ==
    [][lastOp'.op \in BracketKeys
       => \E i \in 1..NumTimes :
             /\ times[i] = activeTimeId
             /\ LET j == IF lastOp'.op = "BracketLeft"
                         THEN (IF i > 1 THEN i - 1 ELSE i)
                         ELSE (IF i < NumTimes THEN i + 1 ELSE i)
                IN /\ lastOp'.id = times[j]
                   /\ j = i => /\ lastOp'.res = "clamped"
                               /\ UNCHANGED progvars
                   /\ j # i => \/ /\ switchLock
                                  /\ lastOp'.res = "locked"
                                  /\ UNCHANGED progvars
                               \/ /\ ~switchLock
                                  /\ switchLock'
                                  /\ \E k \in SwitchSlots :
                                        /\ sw[k].pc = "idle"
                                        /\ sw'[k].pc # "idle"
                                        /\ sw'[k].to = times[j]]_vars

\* ] pressed while the last declared time state is active
C14_Witness ==
    /\ activeTimeId = times[NumTimes]
    /\ lastOp = Op("BracketRight", times[NumTimes], "clamped")
    /\ ~switchLock
    /\ \A k \in SwitchSlots : sw[k].pc = "idle"

\* ======================================================================
\* Properties of requests for an undeclared time state
\* ======================================================================
\* C15: an id that is not declared gets a negative result and no effect:
\* loadTimeState(unknown) returns null, issues no load request and changes
\* no load state; switchToTime(unknown) ends without a switch, with the
\* active id and every entity's visibility unchanged and without leaving the
\* lock held (a lock another switch holds stays with that switch).
C15_UnknownIdRefused ==
    [][(lastOp'.id = UnknownTime /\ lastOp'.op \in {"loadTimeState", "switchTo"})
       => /\ lastOp'.op = "loadTimeState" => lastOp'.res = "null"
          /\ lastOp'.op = "switchTo" => lastOp'.res \in {"aborted", "locked"}
          /\ loadingStates' = loadingStates
          /\ inFlight' = inFlight
          /\ activeTimeId' = activeTimeId
          /\ splatEntities' = splatEntities
          /\ switchLock' = switchLock
          /\ sw' = sw
          /\ lastOp'.res = "aborted" => ~switchLock']_vars

\* switchToTime(unknown) went through the lock and gave it back
C15_Witness ==
    /\ lastOp = Op("switchTo", UnknownTime, "aborted")
    /\ ~switchLock
    /\ initState = "done"
    /\ \A k \in SwitchSlots : sw[k].pc = "idle"

\* ======================================================================
\* Properties of entity visibility
\* ======================================================================
\* C16: an entity whose load completes while its time state is not the
\* active one is created hidden (and stays so unless the switch that was
\* waiting for it shows it at once); in every state an entity other than
\* the active one is visible only as the target of the switch that is
\* between its show and its hide.
C16_InactiveHidden ==
    /\ [](\A id \in Ids :
             (id # activeTimeId /\ splatEntities[id] = "shown")
             => \E k \in SwitchSlots :
                   sw[k].pc \in {"raf1", "raf2"} /\ sw[k].to = id)
    /\ [][\A id \in Ids :
             (/\ lastOp'.op = "assetReady"
              /\ lastOp'.id = id
              /\ id # activeTimeId
              /\ lastOp'.res # "shown")
             => splatEntities'[id] = "hidden"]_vars

\* a time state loaded by a direct loadTimeState call while another is active
C16_Witness ==
    \E id \in Ids :
        /\ id # activeTimeId
        /\ lastOp = Op("assetReady", id, "resolved")
        /\ loadingStates[id] = "loaded"
        /\ splatEntities[id] = "hidden"
        /\ splatEntities[activeTimeId] = "shown"

\* ======================================================================
\* Properties of the change notification
\* ======================================================================
\* the number of occurrences of e in seq
Count(seq, e) == Cardinality({i \in DOMAIN seq : seq[i] = e})

\* C17: onTimeChange is called once per completed switch, after the active
\* id has been updated (the callback reads the new id), with the new id and
\* the previous id as arguments; a step that completes no switch (a
\* dropped, no-op, aborted or failed switchToTime, a load, a timer) calls
\* it not at all.
C17_NotifyOncePerSwitch ==
    /\ [](\A k \in SwitchSlots :
             /\ sw[k].pc = "cooldown"
                => /\ Count(sw[k].trace, "notify") = 1
                   /\ IndexOf(sw[k].trace, "active") < IndexOf(sw[k].trace, "notify")
             /\ sw[k].pc \in {"own", "poll", "raf1", "raf2", "failed"}
                => Count(sw[k].trace, "notify") = 0)
    /\ [][/\ activeTimeId' # activeTimeId
             => /\ lastOp' = Op("frame", activeTimeId', "swapped")
                /\ notified' = [to |-> activeTimeId', from |-> activeTimeId,
                                seen |-> activeTimeId']
          /\ activeTimeId' = activeTimeId => notified' = notified
          /\ lastOp'.res \in {"same", "locked", "aborted", "rejected", "clamped"}
             => notified' = notified]_vars

\* the callback of a completed switch back to the default time state
C17_Witness ==
    /\ lastOp = Op("frame", DefaultTime, "swapped")
    /\ notified.to = DefaultTime
    /\ notified.seen = DefaultTime
    /\ notified.from # DefaultTime
    /\ activeTimeId = DefaultTime
    /\ \E k \in SwitchSlots : sw[k].pc = "cooldown" /\ sw[k].to = DefaultTime

\* ======================================================================
\* Properties of the mesh arbiter (CollisionSystem.checkCollision)
\* ======================================================================
\* the arbiter is switched on, has its mesh and has confirmed the physics
MeshArmed == collisionEnabled /\ collisionMesh = "model" /\ physicsReady

\* C18: checkCollision returns false whenever collision is disabled, or the
\* mesh is not loaded, or physics is not confirmed ready, whatever the
\* raycast would return for the two positions.
C18_FailOpen ==
    (meshOp.op = "checkCollision" /\ ~MeshArmed) => meshOp.res = FALSE

\* a blocking hit is on offer, the arbiter is switched on with its mesh, but
\* physics is not confirmed: the movement passes
C18_Witness ==
    /\ meshOp.op = "checkCollision"
    /\ meshOp.ray = "hit"
    /\ meshOp.cur # meshOp.new
    /\ Dist(meshOp.hit, meshOp.cur) < collisionRadius
    /\ collisionEnabled
    /\ collisionMesh = "model"
    /\ ~physicsReady
    /\ meshOp.res = FALSE

\* C19: with collision enabled, the mesh loaded and physics ready,
\* checkCollision(old, new) returns true exactly when old differs from new,
\* the raycast returns a hit, and the hit point is closer to old than the
\* collision radius; a zero-length move and a hit at the radius or beyond
\* do not block.
C19_BlocksIffNearHit ==
    (meshOp.op = "checkCollision" /\ MeshArmed)
    => (meshOp.res = TRUE
        <=> /\ meshOp.cur # meshOp.new
            /\ meshOp.ray = "hit"
            /\ (IF meshOp.hit > meshOp.cur THEN meshOp.hit - meshOp.cur
                ELSE meshOp.cur - meshOp.hit) < 30)

\* a hit at exactly the radius does not block
C19_Witness ==
    /\ meshOp.op = "checkCollision"
    /\ MeshArmed
    /\ meshOp.cur # meshOp.new
    /\ meshOp.ray = "hit"
    /\ Dist(meshOp.hit, meshOp.cur) = collisionRadius
    /\ meshOp.res = FALSE

\* C20: when the raycast inside checkCollision throws, the caller gets
\* false (movement not blocked) and collisionEnabled, physicsReady and the
\* mesh are what they were.
C20_RaycastErrorContained ==
    [][(meshOp'.op = "checkCollision" /\ meshOp'.ray = "throw")
       => /\ meshOp'.res = FALSE
          /\ UNCHANGED <<collisionEnabled, physicsReady, collisionMesh>>]_meshVars

\* the raycast of an armed arbiter threw on a real move
C20_Witness ==
    /\ meshOp.op = "checkCollision"
    /\ meshOp.ray = "throw"
    /\ meshOp.cur # meshOp.new
    /\ MeshArmed
    /\ meshOp.res = FALSE

\* ======================================================================
\* Properties of the physics probe (CollisionSystem._testPhysicsReady)
\* ======================================================================
\* C21: only the probes _setupCollisionMesh scheduled are made: a probe
\* that does not confirm the physics (no rigidbody system, no dynamics
\* world, or a throwing test raycast) schedules no further probe, so every
\* probe leaves one pending timer fewer.
C21_ProbesBounded ==
    [][meshOp'.op = "testPhysicsReady" => probes' = probes - 1]_meshVars

\* C22: physicsReady implies the mesh is loaded; it becomes true only in a
\* probe whose test raycast returned, made with the mesh loaded, and that
\* probe also sets collisionEnabled; loading the mesh changes neither flag;
\* once true, physicsReady never becomes false and a later probe changes
\* no field of the collision system.
C22_PhysicsReadyLatch ==
    /\ [](physicsReady => collisionMesh = "model")
    /\ [][/\ physicsReady' # physicsReady
             => /\ ~physicsReady
                /\ meshOp'.op = "testPhysicsReady"
                /\ meshOp'.ray \in {"miss", "hit"}
                /\ collisionMesh = "model"
                /\ collisionEnabled'
          /\ meshOp'.op = "setupCollisionMesh"
             => UNCHANGED <<collisionEnabled, physicsReady>>
          /\ (physicsReady /\ meshOp'.op = "testPhysicsReady")
             => UNCHANGED <<collisionEnabled, physicsReady, collisionMesh, debugVisible>>
          /\ physicsReady => physicsReady']_meshVars

\* a probe that ran after the physics had been confirmed
C22_Witness ==
    /\ physicsReady
    /\ collisionMesh = "model"
    /\ meshOp.op = "testPhysicsReady"
    /\ meshOp.ray = "none"
    /\ probes < ProbeTimers - 1

\* ======================================================================
\* Properties of the collision configuration
\* ======================================================================
\* C23: with config.collisionMesh null, mesh collision is off: no load of a
\* collision mesh is requested and checkCollision never blocks a move.
C23_NullConfigDisablesMesh ==
    collisionMeshConfig = "null"
    => /\ meshAsset = "new"
       /\ ~(meshOp.op = "checkCollision" /\ meshOp.res)

\* ======================================================================
\* Properties of the movement loop
\* ======================================================================
\* C24: in walk mode a frame commits the candidate position exactly when no
\* arbiter it consulted rejected; when one rejected, the camera position
\* after the frame is the position before it, in x, y and z.
C24_CommitIffUnblocked ==
    [][(navOp'.op = "update" /\ ~flyMode)
       => /\ navOp'.blocked = "none" => camPos' = navOp'.cand
          /\ navOp'.blocked # "none"
             => /\ camPos'.x = camPos.x
                /\ camPos'.y = camPos.y
                /\ camPos'.z = camPos.z]_navVars

\* a walk-mode frame whose candidate, higher than the camera, was rejected
C24_Witness ==
    /\ navOp.op = "update"
    /\ ~navOp.fly
    /\ navOp.blocked = "wall"
    /\ navOp.cand.y > camPos.y
    /\ camPos = startPosition

\* C25: in walk mode the arbiters are asked in the order mesh, boundary
\* (when wall collision is on), portal (when there is a portal system), and
\* the one that rejects is the last one asked; a frame that none rejects
\* has asked all of them.
C25_ArbitersInOrder ==
    (navOp.op = "update" /\ ~navOp.fly)
    => LET all == <<"mesh">>
                  \o (IF wallCollisionEnabled THEN <<"wall">> ELSE <<>>)
                  \o (IF portalSystem THEN <<"portal">> ELSE <<>>)
           n == Len(navOp.asked)
       IN /\ n >= 1
          /\ n <= Len(all)
          /\ navOp.asked = SubSeq(all, 1, n)
          /\ navOp.blocked # "none" => navOp.asked[n] = navOp.blocked
          /\ navOp.blocked = "none" => n = Len(all)

\* the mesh rejected while boundary and portal were both there to be asked
C25_Witness ==
    /\ navOp.op = "update"
    /\ ~navOp.fly
    /\ wallCollisionEnabled
    /\ portalSystem
    /\ navOp.blocked = "mesh"
    /\ navOp.asked = <<"mesh">>

\* C26: in fly mode no arbiter is asked and the candidate position is
\* committed in every frame, whatever the arbiters would have returned.
C26_FlyModeBypass ==
    [][(navOp'.op = "update" /\ flyMode)
       => /\ navOp'.asked = <<>>
          /\ navOp'.blocked = "none"
          /\ camPos' = navOp'.cand]_navVars

\* a fly-mode frame that moved the camera, with boundary and portal in place
C26_Witness ==
    /\ navOp.op = "update"
    /\ navOp.fly
    /\ flyMode
    /\ wallCollisionEnabled
    /\ portalSystem
    /\ navOp.asked = <<>>
    /\ camPos = navOp.cand
    /\ camPos # startPosition

\* C27: the portal system is updated with the camera's position in every
\* frame, the frames in which an arbiter rejected the candidate included.
C27_PortalUpdatedEveryFrame ==
    [][(navOp'.op = "update" /\ portalSystem)
       => /\ navOp'.updated
          /\ portalPos' = camPos']_navVars

\* C28: the camera's height never exceeds config.maxY, in walk mode and in
\* fly mode, whatever keys, joystick input and orientation the frames get.
C28_HeightBelowMaxY == camPos.y <= maxY

\* ======================================================================
\* Properties of the segment test
\* ======================================================================
\* a segment with two different end points
NonDegenerate(s) == s.x1 # s.x2 \/ s.y1 # s.y2

\* the denominator of the test for segments a and b, in squared grid units
Denominator(a, b) ==
    (a.x1 - a.x2) * (b.y1 - b.y2) - (a.y1 - a.y2) * (b.x1 - b.x2)

\* C29: for every pair of non-degenerate segments a, b over the grid, the
\* test gives the same answer for (a, b) and for (b, a).
C29_Symmetric ==
    (segOp.op = "intersect" /\ NonDegenerate(segOp.a) /\ NonDegenerate(segOp.b))
    => segOp.res = segOp.rev

\* two segments that cross, found crossing in both orders
C29_Witness ==
    /\ segOp.op = "intersect"
    /\ segOp.a = Seg(0, 0, MaxCoord, MaxCoord)
    /\ segOp.b = Seg(0, MaxCoord, MaxCoord, 0)
    /\ segOp.res
    /\ segOp.rev

\* C30: whenever the denominator d has |d| < 1e-4 (parallel or nearly so)
\* the test returns false, also for collinear segments that overlap or are
\* the same segment.
C30_ParallelNeverIntersects ==
    (/\ segOp.op = "intersect"
     /\ Abs(Denominator(segOp.a, segOp.b)) < Grid * Grid
     /\ Abs(Denominator(segOp.a, segOp.b)) * 10000 < Grid * Grid)
    => segOp.res = FALSE

\* a segment tested against itself
C30_Witness ==
    /\ segOp.op = "intersect"
    /\ NonDegenerate(segOp.a)
    /\ segOp.b = segOp.a
    /\ Denominator(segOp.a, segOp.b) = 0
    /\ segOp.res = FALSE

\* the sign of the side of the line through segment s on which (x, y) lies
Side(s, x, y) ==
    LET c == (s.x2 - s.x1) * (y - s.y1) - (s.y2 - s.y1) * (x - s.x1)
    IN IF c > 0 THEN 1 ELSE IF c < 0 THEN -1 ELSE 0

\* segments a and b on two crossing lines share a point: neither has both
\* its ends strictly on one side of the other
SharePoint(a, b) ==
    /\ Side(a, b.x1, b.y1) * Side(a, b.x2, b.y2) <= 0
    /\ Side(b, a.x1, a.y1) * Side(b, a.x2, a.y2) <= 0

\* |d| >= 1e-4 for the denominator d of segments a and b
FarFromParallel(a, b) ==
    \/ Abs(Denominator(a, b)) >= Grid * Grid
    \/ Abs(Denominator(a, b)) * 10000 >= Grid * Grid

\* C31: for segments with |d| >= 1e-4 the test returns true iff the two
\* finite segments share a point, end points included; the segment
\* (0,0)-(10,0) meets (5,-5)-(5,5) and does not meet (5,1)-(5,5).
C31_TrueIffSharePoint ==
    segOp.op = "intersect" =>
        /\ FarFromParallel(segOp.a, segOp.b)
              => (segOp.res <=> SharePoint(segOp.a, segOp.b))
        /\ (segOp.a = Along /\ segOp.b = Across) => segOp.res
        /\ (segOp.a = Along /\ segOp.b = Short) => ~segOp.res

\* a segment that ends on the other one is found to meet it
C31_Witness ==
    /\ segOp.op = "intersect"
    /\ segOp.a = Along
    /\ segOp.b = Ending
    /\ FarFromParallel(segOp.a, segOp.b)
    /\ segOp.res

\* ======================================================================
\* Properties of the wall boundary
\* ======================================================================
\* the (x, z) segment of a move and of a stored wall segment
MoveSeg(a, b) == Seg(a.x, a.z, b.x, b.z)
WallSeg(w) == Seg(w.start.x, w.start.z, w.end.x, w.end.z)

\* the positions in the collection of the segments the last tested move meets
Met ==
    {i \in 1..Len(WALL_SEGMENTS) :
        intersects(MoveSeg(wallOp.from, wallOp.to), WallSeg(WALL_SEGMENTS[i]))}

\* the collision info that names the stored segment at position i
InfoOf(i) ==
    [wall |-> WALL_SEGMENTS[i].name, start |-> WALL_SEGMENTS[i].start,
     end |-> WALL_SEGMENTS[i].end]

\* C32: checkWallCollision is true iff the (x, z) projection of the move
\* meets a stored segment, whatever the heights; getWallCollisionInfo names
\* the first such segment in insertion order, and is non-null exactly when
\* checkWallCollision is true.
C32_ScansAgree ==
    wallOp.op = "check" =>
        /\ wallOp.res <=> Met # {}
        /\ wallOp.info # NoInfo <=> wallOp.res
        /\ \A i \in Met : (\A j \in Met : i <= j) => wallOp.info = InfoOf(i)

\* a move that meets two stored segments of different names, the first named
C32_Witness ==
    /\ wallOp.op = "check"
    /\ wallOp.res
    /\ \E i \in Met, j \in Met :
          /\ i < j
          /\ \A k \in Met : i <= k
          /\ InfoOf(i) # InfoOf(j)
          /\ wallOp.info = InfoOf(i)

\* C33: when addWallSegment(start, end, n) is made to a collection with no
\* segment named n and removeWallSegment(n) follows, the removal returns
\* true and the collection is the one before the addition: getWallSegment(n)
\* finds nothing and every move gets the verdict it had before.
C33_AddRemoveRoundTrip ==
    [][(wallOp'.op = "remove" /\ wallOp'.mark) =>
          /\ wallOp'.res
          /\ WALL_SEGMENTS' = wallOp.before
          /\ getWallSegment(WALL_SEGMENTS', wallOp'.name) = NoWall
          /\ \A a \in MovePoints, b \in MovePoints :
                checkWallCollision(WALL_SEGMENTS', a, b)
                    <=> checkWallCollision(wallOp.before, a, b)]_wallVars

\* after the round trip a move across the place of the former segment passes
C33_Witness ==
    /\ wallOp.op = "remove"
    /\ wallOp.mark
    /\ wallOp.res
    /\ \E a \in MovePoints, b \in MovePoints :
          /\ intersects(MoveSeg(a, b), WallSeg(wallOp.wall))
          /\ ~checkWallCollision(WALL_SEGMENTS, a, b)

\* the positions in the collection of the segments named n
Named(n) == {i \in 1..Len(WALL_SEGMENTS) : WALL_SEGMENTS[i].name = n}

\* C34: removeWallSegment(name) removes one segment, the earliest inserted
\* of that name, keeps the others in their order and returns true; with no
\* segment of that name it returns false and leaves the collection alone;
\* getWallSegment of a name no segment has returns undefined.
C34_RemoveFirstMatch ==
    [][/\ wallOp'.op = "remove" =>
            IF Named(wallOp'.name) = {}
            THEN ~wallOp'.res /\ WALL_SEGMENTS' = WALL_SEGMENTS
            ELSE /\ wallOp'.res
                 /\ Len(WALL_SEGMENTS') = Len(WALL_SEGMENTS) - 1
                 /\ \E i \in Named(wallOp'.name) :
                       /\ \A j \in Named(wallOp'.name) : i <= j
                       /\ \A k \in 1..(i - 1) : WALL_SEGMENTS'[k] = WALL_SEGMENTS[k]
                       /\ \A k \in i..Len(WALL_SEGMENTS') :
                             WALL_SEGMENTS'[k] = WALL_SEGMENTS[k + 1]
       /\ (wallOp'.op = "get" /\ Named(wallOp'.name) = {}) =>
            /\ wallOp'.wall = NoWall
            /\ ~wallOp'.res
            /\ WALL_SEGMENTS' = WALL_SEGMENTS]_wallVars

\* a removal by a name two segments had: the later one is still stored
C34_Witness ==
    /\ wallOp.op = "remove"
    /\ wallOp.res
    /\ Named(wallOp.name) # {}
    /\ wallOp.wall \notin {WALL_SEGMENTS[i] : i \in Named(wallOp.name)}

\* C39: while the collection is the default one changed only by
\* addWallSegment calls without a name and removeWallSegment calls, no two
\* stored segments have the same name.
C39_AutoNamesUnique ==
    unnamedOnly =>
        \A i \in 1..Len(WALL_SEGMENTS), j \in 1..Len(WALL_SEGMENTS) :
            WALL_SEGMENTS[i].name = WALL_SEGMENTS[j].name => i = j

\* the move a -> b goes through the inside of wall w, at a point inside the
\* move: each segment has its two ends strictly on the two sides of the other
ProperlyCrosses(a, b, w) ==
    /\ Side(MoveSeg(a, b), w.start.x, w.start.z)
         * Side(MoveSeg(a, b), w.end.x, w.end.z) < 0
    /\ Side(WallSeg(w), a.x, a.z) * Side(WallSeg(w), b.x, b.z) < 0

\* C38: in walk mode with wall collision enabled no frame commits a move
\* that properly crosses a stored wall segment, however short the move.
C38_NoCrossingCommitted ==
    (/\ wallOp.op = "frame"
     /\ ~wallOp.mark
     /\ wallOp.res)
    => \A i \in 1..Len(WALL_SEGMENTS) :
          ~ProperlyCrosses(wallOp.from, wallOp.to, WALL_SEGMENTS[i])

\* ======================================================================
\* Properties of the placement
\* ======================================================================
\* the matrix of an entity with local position pos, rotation rot, scale
WorldMat(pos, rot, scale) ==
    <<rot[1] * scale[1], rot[2] * scale[1], rot[3] * scale[1], 0,
      rot[4] * scale[2], rot[5] * scale[2], rot[6] * scale[2], 0,
      rot[7] * scale[3], rot[8] * scale[3], rot[9] * scale[3], 0,
      pos[1], pos[2], pos[3], 1>>

\* C35: the entity of a time state with an alignment matrix is placed at
\* (axis correction) x (alignment matrix); the entity of one without is given
\* the axis correction alone, and so is one whose matrix is the identity.
C35_AxisCorrectionAlways ==
    placeOp.op = "place" =>
        /\ Len(placeOp.transform) = 16 =>
              WorldMat(placeOp.pos, placeOp.rot, placeOp.scale)
                  = mul(zToYMat, placeOp.transform)
        /\ Len(placeOp.transform) # 16 =>
              WorldMat(placeOp.pos, placeOp.rot, placeOp.scale) = zToYMat
        /\ placeOp.transform = identityMat =>
              /\ placeOp.pos = <<0, 0, 0>>
              /\ placeOp.scale = <<1, 1, 1>>
              /\ placeOp.rot = <<1, 0, 0,  0, 0, -1,  0, 1, 0>>

\* the entity of a time state whose matrix is the identity
C35_Witness ==
    /\ placeOp.op = "place"
    /\ placeOp.transform = identityMat
    /\ placeOp.rot = <<1, 0, 0,  0, 0, -1,  0, 1, 0>>

\* ======================================================================
\* Properties of switches and loads that meet a slow or failed load
\* ======================================================================
\* switchToTime call k goes on past its wait for the target's load
Resumes(k) ==
    /\ sw[k].pc \in {"own", "poll"}
    /\ sw'[k].pc \notin {"own", "poll", "failed"}

\* C40, as stated: a switchToTime called before the default time state has
\* its entity never makes its target visible.
C40_EarlySwitchNeverShows ==
    \A k \in SwitchSlots : sw[k].early => IndexOf(sw[k].trace, "show") = 0

\* C40, amended: when a switchToTime called before the default time state
\* has its entity goes on while that entity is still missing, it aborts:
\* the active id is unchanged, the target is loaded and hidden, and the lock
\* is released in the same step, with no cooldown.
C40_EarlySwitchAborts ==
    [][\A k \in SwitchSlots :
          (Resumes(k) /\ sw[k].early /\ splatEntities[activeTimeId] = "none")
          => /\ sw'[k].pc = "idle"
             /\ activeTimeId' = activeTimeId
             /\ loadingStates'[sw[k].to] = "loaded"
             /\ splatEntities'[sw[k].to] = "hidden"
             /\ ~switchLock']_vars

\* the toggle pressed during initialize() has aborted: the target is loaded
\* and hidden, the default time state still loading, the lock free
C40_Witness ==
    /\ lastOp.res = "aborted"
    /\ initState = "loading"
    /\ splatEntities[activeTimeId] = "none"
    /\ \E id \in Ids : id # activeTimeId /\ splatEntities[id] = "hidden"
    /\ ~switchLock
    /\ \A k \in SwitchSlots : sw[k].pc = "idle"

\* C36: every switchToTime that takes the lock releases it in the end,
\* whether it completes, aborts or its load fails.
C36_LockEventuallyReleased == switchLock ~> ~switchLock

\* C37: once the loader has answered for a time state, with ready or with
\* error, every loadTimeState call waiting on that load settles in the end.
C37_WaitingCallsSettle ==
    \A id \in Ids :
        (ld[id].poll > 0 /\ loadingStates[id] \in {"loaded", "error"})
            ~> (ld[id].poll = 0)

====
